---- MODULE Spec2Model ----
(***************************************************************************)
(* Recommendation & behaviour-blending engine of the bounty marketplace.   *)
(*                                                                         *)
(* Numbers are exact rationals <<n, d>> (d > 0, lowest terms): the scores  *)
(* of the engine are quotients and weighted sums, and the thresholds       *)
(* (relevance >= 3.0, finalScore > 0.2 * top) are compared exactly.        *)
(***************************************************************************)
EXTENDS Integers, Sequences, FiniteSets, TLC

VARIABLES
    input,              \* RecommendationInput: userTags, userProfile, mutuals
    allBounties,        \* BountyData[] handed to the engine
    bountyTagMap,       \* Map<bountyId, BountyTag[]>
    mutualInteractions, \* Map<mutualId, bountyIds>
    out,                \* what the last call of the engine returned (or threw)
    db,                 \* the user's rows: userTag, userBehaviorTag,
                        \* userBehaviorPrice, userBlendConfig, userProfile,
                        \* userOnboarding, bountyInteraction; the tag table,
                        \* the metrics of the bounties, the mutual edges
    calls,              \* the trackBehavior calls in flight and where each is
    events,             \* behaviour events trackBehavior has processed since Init
    now,                \* Date.now(), in hours
    batches             \* when getDivergenceAlerts returned alerts, oldest first

vars == <<input, allBounties, bountyTagMap, mutualInteractions, out, db, calls, events, now, batches>>

\* What the behaviour tracker holds; the scoring engine reads none of it.
tracking == <<db, calls, events, now, batches>>

\* The tag table: the ids the behaviour tracker is exercised with.
TagTable == <<[id |-> 1, name |-> "typescript"], [id |-> 2, name |-> "backend"]>>

\* A user nothing was tracked for.
NoDb == [tag |-> TagTable, userTag |-> <<>>, userBehaviorTag |-> <<>>,
         userBehaviorPrice |-> <<>>, userBlendConfig |-> <<>>,
         userProfile |-> <<>>, bountyInteraction |-> <<>>, bounty |-> <<>>,
         userOnboarding |-> <<>>, mutual |-> <<>>]

NoTracking == db = NoDb /\ calls = <<>> /\ events = 0 /\ now = 0 /\ batches = <<>>

----------------------------------------------------------------------------
(* Exact rational arithmetic. *)

Abs(x) == IF x < 0 THEN -x ELSE x

RECURSIVE GCD(_, _)
GCD(a, b) == IF b = 0 THEN a ELSE GCD(b, a % b)

Reduce(n, d, g) ==
    IF d < 0 THEN <<(-n) \div g, (-d) \div g>> ELSE <<n \div g, d \div g>>

Norm(n, d) == IF d = 1 THEN <<n, d>> ELSE Reduce(n, d, GCD(Abs(n), Abs(d)))

R(n) == <<n, 1>>
Frac(n, d) == Norm(n, d)

RAdd(a, b) == Norm(a[1] * b[2] + b[1] * a[2], a[2] * b[2])
RMul(a, b) == Norm(a[1] * b[1], a[2] * b[2])
RDiv(a, b) == Norm(a[1] * b[2], a[2] * b[1])
RLt(a, b) == a[1] * b[2] < b[1] * a[2]
RLe(a, b) == a[1] * b[2] <= b[1] * a[2]
RMin(a, b) == IF RLe(a, b) THEN a ELSE b
RMax(a, b) == IF RLe(a, b) THEN b ELSE a

----------------------------------------------------------------------------
(* Constants of the engine. *)

WEIGHTS_Stale ==
    [RELEVANCE |-> Frac(65, 100), SOCIAL |-> Frac(20, 100),
     PRICE |-> Frac(5, 100), ENGAGEMENT |-> Frac(10, 100)]

WEIGHTS ==
    [RELEVANCE |-> Frac(55, 100), SOCIAL |-> Frac(15, 100),
     PRICE |-> Frac(20, 100), ENGAGEMENT |-> Frac(10, 100)]

MIN_RELEVANCE_THRESHOLD == 3

Tiers == {"basic", "middle", "high"}

tierOrder == [basic |-> 1, middle |-> 2, high |-> 3]

----------------------------------------------------------------------------
(* Helper functions of the engine. *)

filterByAccessTier_Strict(bounties, accessTier) ==
    SelectSeq(bounties, LAMBDA b : tierOrder[b.tier] < tierOrder[accessTier])

filterByAccessTier(bounties, accessTier) ==
    LET userTierLevel == tierOrder[accessTier]
    IN  SelectSeq(bounties, LAMBDA b : tierOrder[b.tier] <= userTierLevel)

\* new Map(userTags.map(t => [t.tagId, t.score])).get(tagId) || 0:
\* the last entry of a tag id is the one the map keeps.
userTagMapGet(userTags, tagId) ==
    LET at == {i \in 1..Len(userTags) : userTags[i].tagId = tagId}
    IN  IF at = {} THEN 0
        ELSE userTags[CHOOSE i \in at : \A j \in at : j <= i].score

\* The same with the distance to the top score 5 in place of the score.
RECURSIVE totalScoreOf_Gap(_, _)
totalScoreOf_Gap(userTags, bountyTags) ==
    IF bountyTags = <<>> THEN R(0)
    ELSE LET bt == Head(bountyTags)
         IN  RAdd(RMul(R(5 - userTagMapGet(userTags, bt.tagId)), bt.weight),
                  totalScoreOf_Gap(userTags, Tail(bountyTags)))

RECURSIVE totalScoreOf(_, _)
totalScoreOf(userTags, bountyTags) ==
    IF bountyTags = <<>> THEN R(0)
    ELSE LET bt == Head(bountyTags)
         IN  RAdd(RMul(R(userTagMapGet(userTags, bt.tagId)), bt.weight),
                  totalScoreOf(userTags, Tail(bountyTags)))

RECURSIVE totalWeightOf(_)
totalWeightOf(bountyTags) ==
    IF bountyTags = <<>> THEN R(0)
    ELSE RAdd(Head(bountyTags).weight, totalWeightOf(Tail(bountyTags)))

computeRelevanceScore_NoRescale(userTags, bountyTags) ==
    IF Len(bountyTags) = 0 THEN R(0)
    ELSE LET totalScore == totalScoreOf(userTags, bountyTags)
             totalWeight == totalWeightOf(bountyTags)
         IN  IF RLt(R(0), totalWeight)
             THEN RMul(totalScore, R(2))
             ELSE R(0)

computeRelevanceScore(userTags, bountyTags) ==
    IF Len(bountyTags) = 0 THEN R(0)
    ELSE LET totalScore == totalScoreOf(userTags, bountyTags)
             totalWeight == totalWeightOf(bountyTags)
         IN  IF RLt(R(0), totalWeight)
             THEN RMul(RDiv(totalScore, totalWeight), R(2))
             ELSE R(0)

RECURSIVE Pow2(_)
Pow2(n) == IF n = 0 THEN 1 ELSE 2 * Pow2(n - 1)

\* mutualInteractions.get(mutualId) || []
interactedBounties(mutualInteractionsMap, mutualId) ==
    IF mutualId \in DOMAIN mutualInteractionsMap
    THEN mutualInteractionsMap[mutualId]
    ELSE {}

RECURSIVE boostOf(_, _, _)
boostOf(bountyId, mutuals, mutualInteractionsMap) ==
    IF mutuals = <<>> THEN R(0)
    ELSE LET mutual == Head(mutuals)
             rest == boostOf(bountyId, Tail(mutuals), mutualInteractionsMap)
         IN  IF bountyId \in interactedBounties(mutualInteractionsMap, mutual.mutualId)
             THEN LET layerMultiplier == Frac(1, Pow2(mutual.layer - 1))
                  IN  RAdd(RMul(mutual.strength, layerMultiplier), rest)
             ELSE rest

\* The same without the cap at 2.0.
computeSocialBoost_NoCap(bountyId, mutuals, mutualInteractionsMap) ==
    boostOf(bountyId, mutuals, mutualInteractionsMap)

computeSocialBoost(bountyId, mutuals, mutualInteractionsMap) ==
    RMin(boostOf(bountyId, mutuals, mutualInteractionsMap), R(2))

computePriceHistoryScore(bountyPrice, avgPriceViewed) ==
    IF avgPriceViewed <= 0 THEN Frac(1, 2)
    ELSE LET ratio == Frac(bountyPrice, avgPriceViewed)
         IN  IF RLe(Frac(1, 2), ratio) /\ RLe(ratio, R(2)) THEN R(1)
             ELSE IF RLt(ratio, Frac(1, 2))
                  THEN RMax(Frac(1, 10), RMul(ratio, R(2)))
                  ELSE RMax(Frac(2, 10), RDiv(R(2), ratio))

\* The same without the final clamp to [0,1].
computePriceAffinityTierAware_NoClamp(bountyPrice, bountyTier, avgPriceViewed, userAccessTier) ==
    IF avgPriceViewed <= 0
    THEN IF bountyTier = userAccessTier THEN Frac(8, 10) ELSE Frac(5, 10)
    ELSE LET historyScore == computePriceHistoryScore(bountyPrice, avgPriceViewed)
             tierDiff == tierOrder[userAccessTier] - tierOrder[bountyTier]
             tierBonus == IF tierDiff = 0 THEN Frac(1, 10)
                          ELSE IF tierDiff = 1 THEN R(0)
                          ELSE IF tierDiff >= 2 THEN Frac(-1, 10)
                          ELSE R(0)
         IN  RAdd(historyScore, tierBonus)

computePriceAffinityTierAware(bountyPrice, bountyTier, avgPriceViewed, userAccessTier) ==
    IF avgPriceViewed <= 0
    THEN IF bountyTier = userAccessTier THEN Frac(8, 10) ELSE Frac(5, 10)
    ELSE LET historyScore == computePriceHistoryScore(bountyPrice, avgPriceViewed)
             tierDiff == tierOrder[userAccessTier] - tierOrder[bountyTier]
             tierBonus == IF tierDiff = 0 THEN Frac(1, 10)
                          ELSE IF tierDiff = 1 THEN R(0)
                          ELSE IF tierDiff >= 2 THEN Frac(-1, 10)
                          ELSE R(0)
         IN  RMax(R(0), RMin(R(1), RAdd(historyScore, tierBonus)))

\* bountyTagMap.get(bounty.id) || []
tagsOf(tagMap, bountyId) ==
    IF bountyId \in DOMAIN tagMap THEN tagMap[bountyId] ELSE <<>>

\* The weighted combination of the four sub-scores.
finalScoreOf(relevanceScore, socialBoost, priceAffinity, engagementScore) ==
    LET normalizedEngagement == RMin(Frac(engagementScore, 10), R(1))
    IN  RAdd(RAdd(RMul(RMul(RDiv(relevanceScore, R(10)), WEIGHTS.RELEVANCE), R(10)),
                  RMul(RMul(RDiv(socialBoost, R(2)), WEIGHTS.SOCIAL), R(10))),
             RAdd(RMul(RMul(priceAffinity, WEIGHTS.PRICE), R(10)),
                  RMul(RMul(normalizedEngagement, WEIGHTS.ENGAGEMENT), R(10))))

\* The callback of accessibleBounties.map(...).
scoreBounty(in, bounty, tagMap, mutualInteractionsMap) ==
    LET tags == tagsOf(tagMap, bounty.id)
        relevanceScore == computeRelevanceScore(in.userTags, tags)
        socialBoost == computeSocialBoost(bounty.id, in.mutuals, mutualInteractionsMap)
        priceAffinity ==
            computePriceAffinityTierAware(bounty.price, bounty.tier,
                in.userProfile.avgPriceViewed, in.userProfile.accessTier)
    IN  [bounty |-> bounty,
         relevanceScore |-> relevanceScore,
         socialBoost |-> socialBoost,
         priceAffinity |-> priceAffinity,
         finalScore |-> finalScoreOf(relevanceScore, socialBoost, priceAffinity,
                                     bounty.engagementScore)]

sortByFinalScoreDesc_Ascending(s) ==
    LET RECURSIVE ins(_, _)
        ins(sorted, sb) ==
            IF sorted = <<>> THEN <<sb>>
            ELSE IF RLt(sb.finalScore, Head(sorted).finalScore)
                 THEN <<sb>> \o sorted
                 ELSE <<Head(sorted)>> \o ins(Tail(sorted), sb)
        RECURSIVE srt(_)
        srt(t) == IF t = <<>> THEN <<>>
                  ELSE ins(srt(SubSeq(t, 1, Len(t) - 1)), t[Len(t)])
    IN  srt(s)

\* Array.prototype.sort((a, b) => b.finalScore - a.finalScore): stable, descending.
RECURSIVE insertByFinalScore(_, _)
insertByFinalScore(sorted, sb) ==
    IF sorted = <<>> THEN <<sb>>
    ELSE IF RLt(Head(sorted).finalScore, sb.finalScore)
         THEN <<sb>> \o sorted
         ELSE <<Head(sorted)>> \o insertByFinalScore(Tail(sorted), sb)

RECURSIVE sortByFinalScoreDesc(_)
sortByFinalScoreDesc(s) ==
    IF s = <<>> THEN <<>>
    ELSE insertByFinalScore(sortByFinalScoreDesc(SubSeq(s, 1, Len(s) - 1)), s[Len(s)])

\* slice(0, 5)
slice5(s) == SubSeq(s, 1, IF Len(s) < 5 THEN Len(s) ELSE 5)

NONE == [none |-> TRUE]

\* Returns NONE for undefined.
selectStretchBounty(scoredBounties) ==
    LET topScore == IF scoredBounties = <<>> \/ scoredBounties[1].finalScore = R(0)
                    THEN R(1)
                    ELSE scoredBounties[1].finalScore
        stretchCandidates ==
            SelectSeq(scoredBounties, LAMBDA sb :
                /\ RLt(sb.relevanceScore, R(3))
                /\ RLt(RMul(topScore, Frac(2, 10)), sb.finalScore))
        ranked == sortByFinalScoreDesc(stretchCandidates)
    IN  IF ranked = <<>> THEN NONE ELSE ranked[1]

----------------------------------------------------------------------------
(* The two exported operations. *)

scoreAll(in, bounties, tagMap, mutualInteractionsMap) ==
    LET accessibleBounties == filterByAccessTier(bounties, in.userProfile.accessTier)
    IN  [i \in 1..Len(accessibleBounties) |->
            scoreBounty(in, accessibleBounties[i], tagMap, mutualInteractionsMap)]

passesRelevance(sb) == RLe(R(MIN_RELEVANCE_THRESHOLD), sb.relevanceScore)

relevanceScoresOf(s) == [i \in 1..Len(s) |-> s[i].relevanceScore]

debugOf(bounties, accessibleBounties, filteredByRelevance, ranked) ==
    [totalCandidates |-> Len(bounties),
     filteredByTier |-> Len(accessibleBounties),
     filteredByRelevance |-> filteredByRelevance,
     topRelevanceScores |-> relevanceScoresOf(slice5(ranked))]

Thrown(message) == [threw |-> TRUE, message |-> message]

fallbackRecommendation_Count(bounties, accessibleBounties, allScoredBounties) ==
    LET ranked == sortByFinalScoreDesc(allScoredBounties)
    IN  IF ranked = <<>>
        THEN Thrown("No bounties available for recommendations")
        ELSE [threw |-> FALSE,
              primary |-> ranked[1],
              secondary |-> IF Len(ranked) >= 2 THEN ranked[2] ELSE ranked[1],
              debug |-> debugOf(bounties, accessibleBounties, Len(ranked), ranked)]

fallbackRecommendation_Throws(bounties, accessibleBounties, allScoredBounties) ==
    Thrown("No bounties available for recommendations")

\* No bounty passed the threshold: fall back to the best available.
fallbackRecommendation(bounties, accessibleBounties, allScoredBounties) ==
    LET ranked == sortByFinalScoreDesc(allScoredBounties)
    IN  IF ranked = <<>>
        THEN Thrown("No bounties available for recommendations")
        ELSE [threw |-> FALSE,
              primary |-> ranked[1],
              secondary |-> IF Len(ranked) >= 2 THEN ranked[2] ELSE ranked[1],
              debug |-> debugOf(bounties, accessibleBounties, 0, ranked)]

secondaryOf_Primary(stretch, scoredBounties) ==
    IF stretch # NONE THEN stretch ELSE scoredBounties[1]

\* secondary || scoredBounties[1] || primary
secondaryOf(stretch, scoredBounties) ==
    IF stretch # NONE THEN stretch
    ELSE IF Len(scoredBounties) >= 2 THEN scoredBounties[2]
    ELSE scoredBounties[1]

getRecommendations(in, bounties, tagMap, mutualInteractionsMap) ==
    LET accessibleBounties == filterByAccessTier(bounties, in.userProfile.accessTier)
        allScoredBounties == scoreAll(in, bounties, tagMap, mutualInteractionsMap)
        scoredBounties ==
            sortByFinalScoreDesc(SelectSeq(allScoredBounties, passesRelevance))
        stretch == selectStretchBounty(scoredBounties)
    IN  IF scoredBounties = <<>>
        THEN fallbackRecommendation(bounties, accessibleBounties, allScoredBounties)
        ELSE [threw |-> FALSE,
              primary |-> scoredBounties[1],
              secondary |-> secondaryOf(stretch, scoredBounties),
              debug |-> debugOf(bounties, accessibleBounties, Len(scoredBounties),
                                scoredBounties)]

scoreAllBounties_Fallback(in, bounties, tagMap, mutualInteractionsMap, applyRelevanceFilter) ==
    LET scoredBounties == scoreAll(in, bounties, tagMap, mutualInteractionsMap)
        kept == SelectSeq(scoredBounties, passesRelevance)
    IN  IF applyRelevanceFilter /\ kept # <<>> THEN kept ELSE scoredBounties

scoreAllBounties(in, bounties, tagMap, mutualInteractionsMap, applyRelevanceFilter) ==
    LET scoredBounties == scoreAll(in, bounties, tagMap, mutualInteractionsMap)
    IN  IF applyRelevanceFilter
        THEN SelectSeq(scoredBounties, passesRelevance)
        ELSE scoredBounties

----------------------------------------------------------------------------
(* Inputs of the engine. *)

MaxBounties == 2

\* A tier is a pricing bracket: a bounty carries the price of its bracket.
PriceOfTier == [basic |-> 100, middle |-> 600, high |-> 3000]
EngagementScores == {0, 20}
AvgPricesViewed == {0, 500}

Tag(t, w) == [tagId |-> t, weight |-> w]

\* Tag rows of one bounty; a bounty without rows has no entry in the map.
BountyTagLists ==
    {<<Tag(1, R(1))>>, <<Tag(1, Frac(1, 2)), Tag(2, Frac(1, 2))>>}

UserTag(t, s) == [tagId |-> t, score |-> s]

\* Relevance of the two tag lists: 10 and 5 for the first user, 0 and 3 for the second.
UserTagLists == {<<UserTag(1, 5)>>, <<UserTag(2, 3)>>}

Mutual(m, l, s) == [mutualId |-> m, layer |-> l, strength |-> s]

\* The user's expanded connections and what they interacted with.
SocialGraphs ==
    {[mutuals |-> <<>>, interactions |-> <<>>],
     [mutuals |-> <<Mutual("m1", 1, R(1)), Mutual("m2", 2, Frac(1, 2))>>,
      interactions |-> ("m1" :> {1}) @@ ("m2" :> {1, 2})]}

Bounties(n) == [1..n -> [tier : Tiers, engagementScore : EngagementScores]]

\* Bounty ids are distinct (the primary key of the bounty table).
WithIds(bs) ==
    [i \in 1..Len(bs) |->
        [id |-> i, price |-> PriceOfTier[bs[i].tier], tier |-> bs[i].tier,
         engagementScore |-> bs[i].engagementScore]]

TagMapOf(lists) ==
    [i \in {j \in 1..Len(lists) : lists[j] # <<>>} |-> lists[i]]

Init ==
    /\ \E n \in 0..MaxBounties :
        /\ \E bs \in Bounties(n) : allBounties = WithIds(bs)
        /\ \E lists \in [1..n -> BountyTagLists] : bountyTagMap = TagMapOf(lists)
    /\ \E tier \in Tiers, avg \in AvgPricesViewed, tags \in UserTagLists, g \in SocialGraphs :
        /\ input = [userTags |-> tags,
                    userProfile |-> [avgPriceViewed |-> avg, accessTier |-> tier],
                    mutuals |-> g.mutuals]
        /\ mutualInteractions = g.interactions
    /\ out = [op |-> "none"]
    /\ NoTracking

\* A request calls the engine once over the snapshot fetched for it.
GetRecommendations ==
    /\ out.op = "none"
    /\ out' = [op |-> "getRecommendations",
               result |-> getRecommendations(input, allBounties, bountyTagMap,
                                             mutualInteractions)]
    /\ UNCHANGED <<input, allBounties, bountyTagMap, mutualInteractions, tracking>>

ScoreAllBounties ==
    \E applyRelevanceFilter \in BOOLEAN :
        /\ out.op = "none"
        /\ out' = [op |-> "scoreAllBounties",
                   applyRelevanceFilter |-> applyRelevanceFilter,
                   result |-> scoreAllBounties(input, allBounties, bountyTagMap,
                                               mutualInteractions, applyRelevanceFilter)]
        /\ UNCHANGED <<input, allBounties, bountyTagMap, mutualInteractions, tracking>>

Next == GetRecommendations \/ ScoreAllBounties

Spec == Init /\ [][Next]_vars

----------------------------------------------------------------------------
(* filterByAccessTier on its own: one bounty list, filtered for each tier. *)

NoInput ==
    [userTags |-> <<>>,
     userProfile |-> [avgPriceViewed |-> 0, accessTier |-> "basic"],
     mutuals |-> <<>>]

InitTier ==
    /\ \E n \in 0..MaxBounties : \E bs \in Bounties(n) : allBounties = WithIds(bs)
    /\ input = NoInput
    /\ bountyTagMap = <<>>
    /\ mutualInteractions = <<>>
    /\ out = [op |-> "none"]
    /\ NoTracking

visibleSoFar == IF out.op = "filterByAccessTier" THEN out.visible ELSE <<>>

FilterByAccessTier ==
    \E accessTier \in Tiers :
        /\ accessTier \notin DOMAIN visibleSoFar
        /\ out' = [op |-> "filterByAccessTier",
                   visible |-> (accessTier :> filterByAccessTier(allBounties, accessTier))
                               @@ visibleSoFar]
        /\ UNCHANGED <<input, allBounties, bountyTagMap, mutualInteractions, tracking>>

NextTier == FilterByAccessTier

SpecTier == InitTier /\ [][NextTier]_vars

----------------------------------------------------------------------------
(* computeRelevanceScore on its own: one user tag list, one bounty tag list. *)

MaxBountyTags == 2

UserScores == 1..5
TagWeights == {R(0), Frac(1, 2), R(1)}
UserTagIds == {1, 2}
BountyTagIds == {1, 2, 3}

\* The user's tags: any subset of the tag ids, each with a score 1..5.
RelevanceUserTagLists ==
    {<<>>}
    \cup {<<UserTag(t, sc)>> : t \in UserTagIds, sc \in UserScores}
    \cup {<<UserTag(1, s1), UserTag(2, s2)>> : s1 \in UserScores, s2 \in UserScores}

RelevanceBountyTagLists ==
    UNION {[1..n -> [tagId : BountyTagIds, weight : TagWeights]] : n \in 0..MaxBountyTags}

InitRelevance ==
    /\ \E tags \in RelevanceUserTagLists :
        input = [userTags |-> tags,
                 userProfile |-> [avgPriceViewed |-> 0, accessTier |-> "basic"],
                 mutuals |-> <<>>]
    /\ \E bts \in RelevanceBountyTagLists : bountyTagMap = TagMapOf(<<bts>>)
    /\ allBounties = <<>>
    /\ mutualInteractions = <<>>
    /\ out = [op |-> "none"]
    /\ NoTracking

ComputeRelevanceScore ==
    /\ out.op = "none"
    /\ out' = [op |-> "computeRelevanceScore",
               result |-> computeRelevanceScore(input.userTags, tagsOf(bountyTagMap, 1))]
    /\ UNCHANGED <<input, allBounties, bountyTagMap, mutualInteractions, tracking>>

NextRelevance == ComputeRelevanceScore

SpecRelevance == InitRelevance /\ [][NextRelevance]_vars

----------------------------------------------------------------------------
(* computePriceAffinityTierAware on its own: one bounty, one user profile. *)

BountyPrices == {0, 10, 50, 100, 249, 250, 500, 1000, 1001, 5000, 100000}
ProfileAvgPrices == {-100, 0, 100, 500}

InitPrice ==
    /\ \E price \in BountyPrices, tier \in Tiers :
        allBounties = <<[id |-> 1, price |-> price, tier |-> tier, engagementScore |-> 0]>>
    /\ \E avg \in ProfileAvgPrices, accessTier \in Tiers :
        input = [userTags |-> <<>>,
                 userProfile |-> [avgPriceViewed |-> avg, accessTier |-> accessTier],
                 mutuals |-> <<>>]
    /\ bountyTagMap = <<>>
    /\ mutualInteractions = <<>>
    /\ out = [op |-> "none"]
    /\ NoTracking

ComputePriceAffinityTierAware ==
    /\ out.op = "none"
    /\ out' = [op |-> "computePriceAffinityTierAware",
               result |-> computePriceAffinityTierAware(
                              allBounties[1].price, allBounties[1].tier,
                              input.userProfile.avgPriceViewed,
                              input.userProfile.accessTier)]
    /\ UNCHANGED <<input, allBounties, bountyTagMap, mutualInteractions, tracking>>

NextPrice == ComputePriceAffinityTierAware

SpecPrice == InitPrice /\ [][NextPrice]_vars

----------------------------------------------------------------------------
(* computeSocialBoost on its own: the boost of bounty 1 is recomputed as the
   user's connections grow. *)

MaxMutuals == 4

MutualIds == <<"m1", "m2", "m3", "m4", "m5", "m6">>

\* A new connection: its layer, its strength (0-1) and the bounties it
\* interacted with (none: no entry in the map).
MutualKinds ==
    {[layer |-> 1, strength |-> R(1), bounties |-> {1}],
     [layer |-> 1, strength |-> Frac(1, 2), bounties |-> {1, 2}],
     [layer |-> 2, strength |-> R(1), bounties |-> {1}],
     [layer |-> 3, strength |-> R(1), bounties |-> {1}],
     [layer |-> 2, strength |-> R(1), bounties |-> {2}],
     [layer |-> 3, strength |-> Frac(1, 2), bounties |-> {}]}

InitSocial ==
    /\ input = NoInput
    /\ allBounties = <<[id |-> 1, price |-> PriceOfTier["basic"], tier |-> "basic",
                        engagementScore |-> 0]>>
    /\ bountyTagMap = <<>>
    /\ mutualInteractions = <<>>
    /\ out = [op |-> "none"]
    /\ NoTracking

\* A connection is added to the user's graph.
AddMutual ==
    \E k \in MutualKinds :
        /\ Len(input.mutuals) < MaxMutuals
        /\ LET mutualId == MutualIds[Len(input.mutuals) + 1]
           IN  /\ input' = [input EXCEPT !.mutuals =
                               Append(@, Mutual(mutualId, k.layer, k.strength))]
               /\ mutualInteractions' =
                     IF k.bounties = {} THEN mutualInteractions
                     ELSE (mutualId :> k.bounties) @@ mutualInteractions
        /\ UNCHANGED <<allBounties, bountyTagMap, out, tracking>>

ComputeSocialBoost ==
    /\ out.op = "computeSocialBoost" => out.mutuals # input.mutuals
    /\ out' = [op |-> "computeSocialBoost",
               mutuals |-> input.mutuals,
               result |-> computeSocialBoost(allBounties[1].id, input.mutuals,
                                             mutualInteractions)]
    /\ UNCHANGED <<input, allBounties, bountyTagMap, mutualInteractions, tracking>>

NextSocial == AddMutual \/ ComputeSocialBoost

SpecSocial == InitSocial /\ [][NextSocial]_vars

----------------------------------------------------------------------------
(* computeRelevanceScore recomputed as the user raises the score of one tag. *)

\* The user raises the score of one of their tags; the others stay as they are.
RaiseUserTagScore ==
    \E i \in 1..Len(input.userTags), score \in UserScores :
        /\ score > input.userTags[i].score
        /\ input' = [input EXCEPT !.userTags[i].score = score]
        /\ UNCHANGED <<allBounties, bountyTagMap, mutualInteractions, out, tracking>>

RecomputeRelevanceScore ==
    /\ out.op = "computeRelevanceScore" => out.userTags # input.userTags
    /\ out' = [op |-> "computeRelevanceScore",
               userTags |-> input.userTags,
               result |-> computeRelevanceScore(input.userTags, tagsOf(bountyTagMap, 1))]
    /\ UNCHANGED <<input, allBounties, bountyTagMap, mutualInteractions, tracking>>

NextRaise == RaiseUserTagScore \/ RecomputeRelevanceScore

SpecRaise == InitRelevance /\ [][NextRaise]_vars

----------------------------------------------------------------------------
(* Behaviour tracking (services/behavior.ts).  A table is the sequence of its
   rows in insertion order; the rows are those of the one user followed. *)

InteractionTypes == {"view", "like", "submit", "complete"}

BEHAVIOR_WEIGHTS ==
    [view |-> Frac(1, 10), like |-> Frac(2, 10),
     submit |-> Frac(3, 10), complete |-> Frac(4, 10)]

START_BLENDING == 10
EQUAL_WEIGHT == 50
TRUST_IMPLICIT == 100

\* A nullable column without a value.
NULL == <<>>

countField == [view |-> "viewCount", like |-> "likeCount",
               submit |-> "submitCount", complete |-> "completeCount"]
scoreField == [view |-> "viewScore", like |-> "likeScore",
               submit |-> "submitScore", complete |-> "completeScore"]

\* findFirst: the first matching row, <<>> (undefined) when there is none.
findFirst(table, tagId) ==
    LET at == {i \in 1..Len(table) : table[i].tagId = tagId}
    IN  IF at = {} THEN <<>>
        ELSE table[CHOOSE i \in at : \A j \in at : i <= j]

\* A user_behavior_tag row with the defaults of its columns.
behaviorTagDefaults(tagId) ==
    [tagId |-> tagId,
     viewCount |-> 0, viewScore |-> R(0),
     likeCount |-> 0, likeScore |-> R(0),
     submitCount |-> 0, submitScore |-> R(0),
     completeCount |-> 0, completeScore |-> R(0),
     implicitScore |-> R(0),
     lastExplicitScore |-> NULL,
     divergenceDetected |-> FALSE]

computeImplicitTagScore(behavior) ==
    LET raw == RAdd(RAdd(RAdd(RMul(behavior.viewScore, Frac(1, 10)),
                              RMul(behavior.likeScore, Frac(2, 10))),
                         RMul(behavior.submitScore, Frac(3, 10))),
                    RMul(behavior.completeScore, Frac(4, 10)))
    IN  RMin(R(10), raw)

\* The same without the bound 10 on the per-type score.
tagBehaviorUpdate_NoCap(existing, interactionType) ==
    LET newCount == existing[countField[interactionType]] + 1
        newScore == RMul(RMul(R(newCount), BEHAVIOR_WEIGHTS[interactionType]), R(2))
    IN  [count |-> newCount,
         score |-> newScore,
         implicitScore |-> computeImplicitTagScore(
             [existing EXCEPT ![countField[interactionType]] = newCount,
                              ![scoreField[interactionType]] = newScore])]

\* The values updateTagBehavior writes over an existing row it read.
tagBehaviorUpdate(existing, interactionType) ==
    LET newCount == existing[countField[interactionType]] + 1
        newScore == RMin(R(10), RMul(RMul(R(newCount), BEHAVIOR_WEIGHTS[interactionType]),
                                     R(2)))
    IN  [count |-> newCount,
         score |-> newScore,
         implicitScore |-> computeImplicitTagScore(
             [existing EXCEPT ![countField[interactionType]] = newCount,
                              ![scoreField[interactionType]] = newScore])]

\* The same update with the tag id left out of its where clause.
RECURSIVE writeTagBehavior_AnyTag(_, _, _, _)
writeTagBehavior_AnyTag(table, tagId, interactionType, set) ==
    IF table = <<>> THEN <<>>
    ELSE <<[Head(table) EXCEPT ![countField[interactionType]] = set.count,
                               ![scoreField[interactionType]] = set.score,
                               !.implicitScore = set.implicitScore]>>
         \o writeTagBehavior_AnyTag(Tail(table), tagId, interactionType, set)

\* update ... set ... where userId and tagId match.
RECURSIVE writeTagBehavior(_, _, _, _)
writeTagBehavior(table, tagId, interactionType, set) ==
    IF table = <<>> THEN <<>>
    ELSE LET row == Head(table)
             written == IF row.tagId = tagId
                        THEN [row EXCEPT ![countField[interactionType]] = set.count,
                                         ![scoreField[interactionType]] = set.score,
                                         !.implicitScore = set.implicitScore]
                        ELSE row
         IN  <<written>> \o writeTagBehavior(Tail(table), tagId, interactionType, set)

\* The row updateTagBehavior inserts when it found none.
tagBehaviorInsert(tagId, interactionType) ==
    LET initialCount == 1
        initialScore == RMul(BEHAVIOR_WEIGHTS[interactionType], R(2))
    IN  [behaviorTagDefaults(tagId) EXCEPT
            ![countField[interactionType]] = initialCount,
            ![scoreField[interactionType]] = initialScore,
            !.implicitScore = initialScore]

updateTagBehavior(table, tagId, interactionType) ==
    LET existing == findFirst(table, tagId)
    IN  IF existing # <<>>
        THEN writeTagBehavior(table, tagId, interactionType,
                              tagBehaviorUpdate(existing, interactionType))
        ELSE Append(table, tagBehaviorInsert(tagId, interactionType))

RECURSIVE updateTagBehaviors(_, _, _)
updateTagBehaviors(table, bountyTags, interactionType) ==
    IF bountyTags = <<>> THEN table
    ELSE updateTagBehaviors(updateTagBehavior(table, Head(bountyTags).tagId, interactionType),
                            Tail(bountyTags), interactionType)

fieldMap == [view |-> "avgPriceViewed", like |-> "avgPriceLiked",
             submit |-> "avgPriceSubmitted", complete |-> "avgPriceCompleted"]

\* The row updatePriceBehavior inserts when the user has none.
priceBehaviorInsert(price, interactionType) ==
    [avgPriceViewed |-> IF interactionType = "view" THEN price ELSE R(0),
     avgPriceLiked |-> IF interactionType = "like" THEN price ELSE R(0),
     avgPriceSubmitted |-> IF interactionType = "submit" THEN price ELSE R(0),
     avgPriceCompleted |-> IF interactionType = "complete" THEN price ELSE R(0),
     implicitPriceMin |-> NULL,
     implicitPriceMax |-> NULL]

\* The least (greatest) of a non-empty set of numbers.
minOf(S) == CHOOSE v \in S : \A w \in S : RLe(v, w)
maxOf(S) == CHOOSE v \in S : \A w \in S : RLe(w, v)

\* The row updatePriceBehavior writes over the one it read.
priceBehaviorUpdate(existing, price, interactionType) ==
    LET alpha == Frac(1, 10)
        field == fieldMap[interactionType]
        currentAvg == existing[field]
        newAvg == IF currentAvg = R(0) THEN price
                  ELSE RAdd(RMul(currentAvg, RAdd(R(1), RMul(R(-1), alpha))),
                            RMul(price, alpha))
        updated == [existing EXCEPT ![field] = newAvg]
        allAvgs == {v \in {updated.avgPriceViewed, updated.avgPriceLiked,
                           updated.avgPriceSubmitted, updated.avgPriceCompleted} :
                        RLt(R(0), v)}
    IN  [updated EXCEPT
            !.implicitPriceMin = IF allAvgs # {} THEN RMul(minOf(allAvgs), Frac(1, 2))
                                 ELSE NULL,
            !.implicitPriceMax = IF allAvgs # {} THEN RMul(maxOf(allAvgs), Frac(3, 2))
                                 ELSE NULL]

\* userId is unique in user_behavior_price: the table holds one row at most.
updatePriceBehavior(table, price, interactionType) ==
    IF table = <<>> THEN <<priceBehaviorInsert(price, interactionType)>>
    ELSE <<priceBehaviorUpdate(table[1], price, interactionType)>>

\* A user_blend_config row with the defaults of its columns.
blendConfigDefaults ==
    [explicitWeight |-> Frac(8, 10), implicitWeight |-> Frac(2, 10),
     totalInteractions |-> 0,
     lastDivergencePrompt |-> NULL, divergencePromptCount |-> 0]

\* The same with the ramp running over the whole range 10..100.
blendConfigUpdate_LongRamp(config) ==
    LET newTotal == config.totalInteractions + 1
        progress == Frac(newTotal - START_BLENDING, TRUST_IMPLICIT - START_BLENDING)
    IN  IF newTotal >= TRUST_IMPLICIT
        THEN [config EXCEPT !.totalInteractions = newTotal,
                            !.explicitWeight = Frac(3, 10), !.implicitWeight = Frac(7, 10)]
        ELSE IF newTotal >= START_BLENDING
        THEN [config EXCEPT !.totalInteractions = newTotal,
                !.explicitWeight = RAdd(Frac(8, 10), RMul(R(-1), RMul(progress, Frac(5, 10)))),
                !.implicitWeight = RAdd(Frac(2, 10), RMul(progress, Frac(5, 10)))]
        ELSE [config EXCEPT !.totalInteractions = newTotal,
                            !.explicitWeight = Frac(8, 10), !.implicitWeight = Frac(2, 10)]

\* The row updateBlendConfig writes over the one it read.
blendConfigUpdate(config) ==
    LET newTotal == config.totalInteractions + 1
        progress == Frac(newTotal - START_BLENDING, EQUAL_WEIGHT - START_BLENDING)
    IN  IF newTotal >= TRUST_IMPLICIT
        THEN [config EXCEPT !.totalInteractions = newTotal,
                            !.explicitWeight = Frac(3, 10), !.implicitWeight = Frac(7, 10)]
        ELSE IF newTotal >= EQUAL_WEIGHT
        THEN [config EXCEPT !.totalInteractions = newTotal,
                            !.explicitWeight = Frac(5, 10), !.implicitWeight = Frac(5, 10)]
        ELSE IF newTotal >= START_BLENDING
        THEN [config EXCEPT !.totalInteractions = newTotal,
                !.explicitWeight = RAdd(Frac(8, 10), RMul(R(-1), RMul(progress, Frac(3, 10)))),
                !.implicitWeight = RAdd(Frac(2, 10), RMul(progress, Frac(3, 10)))]
        ELSE [config EXCEPT !.totalInteractions = newTotal,
                            !.explicitWeight = Frac(8, 10), !.implicitWeight = Frac(2, 10)]

\* userId is unique in user_blend_config: the table holds one row at most.
updateBlendConfig(table) ==
    IF table = <<>> THEN table
    ELSE <<blendConfigUpdate(table[1])>>

\* implicitMap.get(tagId): the last row of a tag id is the one the map keeps.
implicitMapGet(table, tagId) ==
    LET at == {i \in 1..Len(table) : table[i].tagId = tagId}
    IN  table[CHOOSE i \in at : \A j \in at : j <= i].implicitScore

\* flagDivergence, setting the flag without the explicit score seen.
RECURSIVE flagDivergence_FlagOnly(_, _, _)
flagDivergence_FlagOnly(userTags, implicitTags, rows) ==
    IF rows = <<>> THEN <<>>
    ELSE LET row == Head(rows)
             implicitScore == implicitMapGet(implicitTags, row.tagId)
             explicitScore == userTagMapGet(userTags, row.tagId)
             flagged ==
                IF (explicitScore = 0 /\ RLe(R(3), implicitScore))
                   \/ (explicitScore >= 4 /\ RLt(implicitScore, R(1)))
                THEN [row EXCEPT !.divergenceDetected = TRUE]
                ELSE row
         IN  <<flagged>> \o flagDivergence_FlagOnly(userTags, implicitTags, Tail(rows))

\* explicitMap.get(tagId) is undefined for a tag the user has not: 0 stands for
\* it, which the tests of checkDivergence treat like undefined.
RECURSIVE flagDivergence(_, _, _)
flagDivergence(userTags, implicitTags, rows) ==
    IF rows = <<>> THEN <<>>
    ELSE LET row == Head(rows)
             implicitScore == implicitMapGet(implicitTags, row.tagId)
             explicitScore == userTagMapGet(userTags, row.tagId)
             flagged ==
                IF explicitScore = 0 /\ RLe(R(3), implicitScore)
                THEN [row EXCEPT !.divergenceDetected = TRUE,
                                 !.lastExplicitScore = R(0)]
                ELSE IF explicitScore # 0 /\ explicitScore >= 4
                                          /\ RLt(implicitScore, R(1))
                THEN [row EXCEPT !.divergenceDetected = TRUE,
                                 !.lastExplicitScore = R(explicitScore)]
                ELSE row
         IN  <<flagged>> \o flagDivergence(userTags, implicitTags, Tail(rows))

checkDivergence(userTags, table) == flagDivergence(userTags, table, table)

\* db.query.bounty.findFirst by id.
findBounty(bounties, bountyId) ==
    LET at == {i \in 1..Len(bounties) : bounties[i].id = bountyId}
    IN  IF at = {} THEN <<>> ELSE bounties[CHOOSE i \in at : TRUE]

\* The user's rows after trackBehavior(userId, bountyId, interactionType).
trackBehavior(d, bounties, tagMap, bountyId, interactionType) ==
    LET bountyData == findBounty(bounties, bountyId)
    IN  IF bountyData = <<>> THEN d
        ELSE LET bountyTags == tagsOf(tagMap, bountyId)
                 tags == updateTagBehaviors(d.userBehaviorTag, bountyTags, interactionType)
             IN  [d EXCEPT
                    !.userBehaviorTag = checkDivergence(d.userTag, tags),
                    !.userBehaviorPrice =
                        updatePriceBehavior(@, R(bountyData.price), interactionType),
                    !.userBlendConfig = updateBlendConfig(@)]

----------------------------------------------------------------------------
(* The blend configuration of an onboarded user over a long run of events. *)

MaxInteractions == 101

\* A bounty without tag rows, and the id of no bounty.
UntaggedBounty == 3
MissingBounty == 9

\* startOnboarding has created the onboarding record, the blend config and the
\* price tracker.
Onboarded ==
    [NoDb EXCEPT
        !.userOnboarding = <<[currentStep |-> 1]>>,
        !.userBlendConfig = <<blendConfigDefaults>>,
        !.userBehaviorPrice =
            <<[avgPriceViewed |-> R(0), avgPriceLiked |-> R(0),
               avgPriceSubmitted |-> R(0), avgPriceCompleted |-> R(0),
               implicitPriceMin |-> NULL, implicitPriceMax |-> NULL]>>]

InitBlend ==
    /\ input = NoInput
    /\ allBounties = <<[id |-> UntaggedBounty, price |-> PriceOfTier["basic"],
                        tier |-> "basic", engagementScore |-> 0]>>
    /\ bountyTagMap = <<>>
    /\ mutualInteractions = <<>>
    /\ out = [op |-> "none"]
    /\ db = Onboarded
    /\ calls = <<>>
    /\ events = 0
    /\ now = 0
    /\ batches = <<>>

\* One call of trackBehavior, run to its end with no other writer.
TrackBehaviorOf(bountyId, interactionType) ==
    /\ db' = trackBehavior(db, allBounties, bountyTagMap, bountyId, interactionType)
    /\ events' = IF findBounty(allBounties, bountyId) # <<>> THEN events + 1 ELSE events
    /\ out' = [op |-> "trackBehavior", bountyId |-> bountyId,
               interactionType |-> interactionType]
    /\ UNCHANGED <<input, allBounties, bountyTagMap, mutualInteractions, calls, now,
                   batches>>

TrackBehaviorUntagged ==
    \E bountyId \in {UntaggedBounty, MissingBounty}, interactionType \in InteractionTypes :
        /\ events < MaxInteractions
        /\ TrackBehaviorOf(bountyId, interactionType)

NextBlend == TrackBehaviorUntagged

SpecBlend == InitBlend /\ [][NextBlend]_vars

----------------------------------------------------------------------------
(* Sequential behaviour events on tagged bounties.  The user starts from what
   earlier events left: a run of trackBehavior calls replayed from an empty or
   freshly onboarded profile. *)

MaxEvents == 3

\* Bounty 1 carries tags 1 and 2, bounty 2 carries tag 2.
TrackedBounties ==
    <<[id |-> 1, price |-> 100, tier |-> "basic", engagementScore |-> 0],
      [id |-> 2, price |-> 300, tier |-> "basic", engagementScore |-> 0]>>

TrackedBountyTags ==
    (1 :> <<Tag(1, R(1)), Tag(2, Frac(1, 2))>>) @@ (2 :> <<Tag(2, R(1))>>)

\* The explicit skills the user declared.
ExplicitTagLists == {<<>>, <<UserTag(1, 5)>>, <<UserTag(1, 3), UserTag(2, 4)>>}

\* The profiles that n events of one type on one bounty, one after the other,
\* make of the profiles of S.
RECURSIVE repeatTrack(_, _, _, _)
repeatTrack(S, bountyId, interactionType, n) ==
    IF n = 0 THEN S
    ELSE IF n = 1
    THEN {trackBehavior(d, TrackedBounties, TrackedBountyTags,
                        bountyId, interactionType) : d \in S}
    ELSE LET half == repeatTrack(S, bountyId, interactionType, n \div 2)
         IN  IF half = {} THEN {}
             ELSE repeatTrack(half, bountyId, interactionType, n - (n \div 2))

\* Earlier events of the user on bounty 1: none; 49 views (view score 9.8);
\* 9 completions (implicit score 2.88); every type up to its cap.
Histories(S) ==
    S \cup repeatTrack(S, 1, "view", 49)
      \cup repeatTrack(S, 1, "complete", 9)
      \cup repeatTrack(repeatTrack(repeatTrack(repeatTrack(S, 1, "view", 50), 1, "like", 25),
                                  1, "submit", 17), 1, "complete", 13)

\* The profiles before any event: onboarded or not, with the declared skills.
Starts == {[start EXCEPT !.userTag = userTags] :
              start \in {NoDb, Onboarded}, userTags \in ExplicitTagLists}

InitBehavior ==
    /\ input = NoInput
    /\ allBounties = TrackedBounties
    /\ bountyTagMap = TrackedBountyTags
    /\ mutualInteractions = <<>>
    /\ out = [op |-> "none"]
    /\ db \in Histories(Starts)
    /\ calls = <<>>
    /\ events = 0
    /\ now = 0
    /\ batches = <<>>

\* The events of a run: any type on a tagged bounty, and a view of no bounty.
TrackedEvents == ({1, 2} \X InteractionTypes) \cup {<<MissingBounty, "view">>}

TrackBehavior ==
    \E event \in TrackedEvents :
        /\ events < MaxEvents
        /\ TrackBehaviorOf(event[1], event[2])

NextBehavior == TrackBehavior

SpecBehavior == InitBehavior /\ [][NextBehavior]_vars

----------------------------------------------------------------------------
(* Divergence prompts: getDivergenceAlerts and the response to an alert. *)

\* A value that is present, as opposed to NULL: a timestamp, an optional input.
Some(v) == <<v>>

PROMPT_INTERVAL_HOURS == 24

\* select ... where divergenceDetected = true.
divergentTags(table) ==
    SelectSeq(table, LAMBDA row : row.divergenceDetected)

RECURSIVE alertsOf(_)
alertsOf(rows) ==
    IF rows = <<>> THEN <<>>
    ELSE LET dt == Head(rows)
             explicitScore == IF dt.lastExplicitScore = NULL THEN R(0)
                              ELSE dt.lastExplicitScore
         IN  IF explicitScore = R(0) /\ RLe(R(3), dt.implicitScore)
             THEN <<[type |-> "new_interest", tagId |-> dt.tagId,
                     explicitScore |-> R(0), implicitScore |-> dt.implicitScore]>>
                  \o alertsOf(Tail(rows))
             ELSE IF RLe(R(4), explicitScore) /\ RLt(dt.implicitScore, R(1))
             THEN <<[type |-> "unused_skill", tagId |-> dt.tagId,
                     explicitScore |-> explicitScore, implicitScore |-> dt.implicitScore]>>
                  \o alertsOf(Tail(rows))
             ELSE alertsOf(Tail(rows))

\* The alerts getDivergenceAlerts returns at time `at` (in hours).
getDivergenceAlerts(d, at) ==
    LET config == d.userBlendConfig
        tooSoon == /\ config # <<>>
                   /\ config[1].lastDivergencePrompt # NULL
                   /\ at - config[1].lastDivergencePrompt[1] < PROMPT_INTERVAL_HOURS
    IN  IF tooSoon THEN <<>>
        ELSE alertsOf(divergentTags(d.userBehaviorTag))

markDivergencePromptShown(table, at) ==
    IF table = <<>> THEN table
    ELSE <<[table[1] EXCEPT !.lastDivergencePrompt = Some(at),
                            !.divergencePromptCount = @ + 1]>>

\* The same, clearing the flag of every tag of the user.
RECURSIVE clearDivergence_All(_, _)
clearDivergence_All(table, tagId) ==
    IF table = <<>> THEN <<>>
    ELSE <<[Head(table) EXCEPT !.divergenceDetected = FALSE]>>
         \o clearDivergence_All(Tail(table), tagId)

RECURSIVE clearDivergence(_, _)
clearDivergence(table, tagId) ==
    IF table = <<>> THEN <<>>
    ELSE LET row == Head(table)
         IN  <<IF row.tagId = tagId THEN [row EXCEPT !.divergenceDetected = FALSE]
               ELSE row>>
             \o clearDivergence(Tail(table), tagId)

ResponseActions == {"add_skill", "remove_skill", "keep", "dismiss"}

\* delete from user_tag where userId and tagId match.
deleteUserTag(userTags, tagId) ==
    SelectSeq(userTags, LAMBDA row : row.tagId # tagId)

\* The user's rows after respondToDivergence({tagId, action, newScore}) at `at`.
respondToDivergence(d, tagId, action, newScore, at) ==
    [d EXCEPT
        !.userTag = IF action = "add_skill" /\ newScore # NULL
                    THEN Append(@, UserTag(tagId, newScore[1]))
                    ELSE IF action = "remove_skill" THEN deleteUserTag(@, tagId)
                    ELSE @,
        !.userBehaviorTag = clearDivergence(@, tagId),
        !.userBlendConfig = markDivergencePromptShown(@, at)]

----------------------------------------------------------------------------
(* Behaviour events and responses to divergence prompts of an onboarded user. *)

MaxResponses == 2

\* The responses of a run: newScore is optional (the schema admits 1..5) and
\* read for add_skill only.
Responses ==
    {[tagId |-> tagId, action |-> action, newScore |-> NULL] :
        tagId \in {1, 2}, action \in ResponseActions}
    \cup {[tagId |-> tagId, action |-> "add_skill", newScore |-> Some(4)] :
        tagId \in {1, 2}}

\* One call of respondToDivergence, at the present time.
RespondToDivergenceOf(response) ==
    /\ db.userBlendConfig # <<>>
    /\ db.userBlendConfig[1].divergencePromptCount < MaxResponses
    /\ db' = respondToDivergence(db, response.tagId, response.action,
                                 response.newScore, now)
    /\ out' = [op |-> "respondToDivergence", tagId |-> response.tagId,
               action |-> response.action, newScore |-> response.newScore]
    /\ UNCHANGED <<input, allBounties, bountyTagMap, mutualInteractions,
                   calls, events, now, batches>>

RespondToDivergence == \E response \in Responses : RespondToDivergenceOf(response)

\* Earlier events of the user on bounty 1: none; 49 views (implicit score
\* 0.98); 9 completions (implicit score 2.88).
DivergenceHistories(S) ==
    S \cup repeatTrack(S, 1, "view", 49) \cup repeatTrack(S, 1, "complete", 9)

InitDivergence ==
    /\ input = NoInput
    /\ allBounties = TrackedBounties
    /\ bountyTagMap = TrackedBountyTags
    /\ mutualInteractions = <<>>
    /\ out = [op |-> "none"]
    /\ db \in DivergenceHistories({[Onboarded EXCEPT !.userTag = userTags] :
                                      userTags \in ExplicitTagLists})
    /\ calls = <<>>
    /\ events = 0
    /\ now = 0
    /\ batches = <<>>

\* The events of a run: a view or a completion.
DivergenceEvents ==
    {<<1, "view">>, <<1, "complete">>, <<2, "complete">>, <<MissingBounty, "view">>}

TrackDivergence ==
    \E event \in DivergenceEvents :
        /\ events < MaxEvents
        /\ TrackBehaviorOf(event[1], event[2])

NextDivergence == TrackDivergence \/ RespondToDivergence

SpecDivergence == InitDivergence /\ [][NextDivergence]_vars

----------------------------------------------------------------------------
(* Divergence prompts over time: the client polls getDivergenceAlerts while
   the user goes on completing bounties and answers prompts. *)

MaxTicks == 3
MaxBatches == 2

\* The clock advances by half the prompt interval.
TickHours == 12

Tick ==
    /\ now < MaxTicks * TickHours
    /\ now' = now + TickHours
    /\ UNCHANGED <<input, allBounties, bountyTagMap, mutualInteractions, out,
                   db, calls, events, batches>>

\* The getDivergenceAlerts query; a batch is a call that returns alerts.
GetDivergenceAlerts ==
    LET alerts == getDivergenceAlerts(db, now)
    IN  /\ Len(batches) < MaxBatches
        /\ out' = [op |-> "getDivergenceAlerts", at |-> now, result |-> alerts]
        /\ batches' = IF alerts # <<>> THEN Append(batches, now) ELSE batches
        /\ UNCHANGED <<input, allBounties, bountyTagMap, mutualInteractions,
                       db, calls, events, now>>

\* The events of a run: completions of bounty 1, of tags 1 and 2.
AlertEvents == {<<1, "complete">>}

TrackAlertEvent ==
    \E event \in AlertEvents :
        /\ events < MaxEvents
        /\ TrackBehaviorOf(event[1], event[2])

\* The answers of a run: a prompt dismissed, a skill added.
AlertResponses ==
    {[tagId |-> 1, action |-> "dismiss", newScore |-> NULL],
     [tagId |-> 2, action |-> "add_skill", newScore |-> Some(4)]}

RespondToAlert == \E response \in AlertResponses : RespondToDivergenceOf(response)

\* Earlier events of the user on bounty 1: none; 9 completions.
InitAlerts ==
    /\ input = NoInput
    /\ allBounties = TrackedBounties
    /\ bountyTagMap = TrackedBountyTags
    /\ mutualInteractions = <<>>
    /\ out = [op |-> "none"]
    /\ db \in LET S == {[Onboarded EXCEPT !.userTag = userTags] :
                           userTags \in ExplicitTagLists}
              IN  S \cup repeatTrack(S, 1, "complete", 9)
    /\ calls = <<>>
    /\ events = 0
    /\ now = 0
    /\ batches = <<>>

NextAlerts == TrackAlertEvent \/ GetDivergenceAlerts \/ RespondToAlert \/ Tick

SpecAlerts == InitAlerts /\ [][NextAlerts]_vars

----------------------------------------------------------------------------
(* Two trackBehavior calls of one user in flight at once.  Every await of the
   code is a statement the database runs on its own, and the statements of the
   two calls interleave in any order; nothing in the code (no transaction, no
   lock, no unique index on user and tag) orders them.  checkDivergence writes
   the flag and the explicit score seen only, and is taken as one step. *)

Callers == {1, 2}

\* A call that has just been made; `before` keeps the user's rows at that time.
newCall(bountyId, interactionType, d) ==
    [bountyId |-> bountyId, interactionType |-> interactionType,
     pc |-> "findBounty", bountyData |-> NULL, bountyTags |-> <<>>,
     existing |-> NULL, before |-> d]

\* The events of a run: both calls record the same event.
ConcurrentEvents == ({1, 2, MissingBounty} \X InteractionTypes)

\* Earlier events of the user on bounty 1: none; two likes.
InitConcurrent ==
    /\ input = NoInput
    /\ allBounties = TrackedBounties
    /\ bountyTagMap = TrackedBountyTags
    /\ mutualInteractions = <<>>
    /\ out = [op |-> "none"]
    /\ db \in {NoDb, Onboarded} \cup repeatTrack({NoDb, Onboarded}, 1, "like", 2)
    /\ \E event \in ConcurrentEvents :
          calls = [c \in Callers |-> newCall(event[1], event[2], db)]
    /\ events = 0
    /\ now = 0
    /\ batches = <<>>

\* Call c goes on from pc `from` with the locals `locals`, the rows being d.
step(c, from, locals, d) ==
    /\ calls[c].pc = from
    /\ calls' = [calls EXCEPT ![c] = locals]
    /\ db' = d
    /\ out' = [op |-> "trackBehavior", bountyId |-> calls[c].bountyId,
               interactionType |-> calls[c].interactionType]
    /\ UNCHANGED <<input, allBounties, bountyTagMap, mutualInteractions, now, batches>>

\* Steps 1 and 2: the bounty and its tags.
FindBounty(c) ==
    LET bountyData == findBounty(allBounties, calls[c].bountyId)
        bountyTags == tagsOf(bountyTagMap, calls[c].bountyId)
    IN  /\ step(c, "findBounty",
                IF bountyData = <<>> THEN [calls[c] EXCEPT !.pc = "done"]
                ELSE [calls[c] EXCEPT !.bountyData = bountyData,
                                      !.bountyTags = bountyTags,
                                      !.pc = IF bountyTags = <<>> THEN "readPrice"
                                             ELSE "readTag"],
                db)
        /\ UNCHANGED events

\* updateTagBehavior: db.query.userBehaviorTag.findFirst.
ReadTagBehavior(c) ==
    /\ step(c, "readTag",
            [calls[c] EXCEPT
                !.existing = findFirst(db.userBehaviorTag, Head(calls[c].bountyTags).tagId),
                !.pc = "writeTag"],
            db)
    /\ UNCHANGED events

\* updateTagBehavior: the update or the insert, from the row read before.
WriteTagBehavior(c) ==
    LET call == calls[c]
        tagId == Head(call.bountyTags).tagId
        table == db.userBehaviorTag
    IN  /\ step(c, "writeTag",
                [call EXCEPT !.bountyTags = Tail(@), !.existing = NULL,
                             !.pc = IF Tail(call.bountyTags) = <<>> THEN "readPrice"
                                    ELSE "readTag"],
                [db EXCEPT !.userBehaviorTag =
                    IF call.existing # <<>>
                    THEN writeTagBehavior(table, tagId, call.interactionType,
                             tagBehaviorUpdate(call.existing, call.interactionType))
                    ELSE Append(table, tagBehaviorInsert(tagId, call.interactionType))])
        /\ UNCHANGED events

\* updatePriceBehavior: db.query.userBehaviorPrice.findFirst.
ReadPriceBehavior(c) ==
    /\ step(c, "readPrice",
            [calls[c] EXCEPT
                !.existing = IF db.userBehaviorPrice = <<>> THEN NULL
                             ELSE db.userBehaviorPrice[1],
                !.pc = "writePrice"],
            db)
    /\ UNCHANGED events

\* updatePriceBehavior: the insert (userId is unique: a second insert is
\* rejected and the call ends there) or the update of the average and range.
WritePriceBehavior(c) ==
    LET call == calls[c]
        table == db.userBehaviorPrice
        price == R(call.bountyData.price)
        field == fieldMap[call.interactionType]
        set == priceBehaviorUpdate(call.existing, price, call.interactionType)
    IN  /\ step(c, "writePrice",
                [call EXCEPT !.existing = NULL,
                             !.pc = IF call.existing = <<>> /\ table # <<>>
                                    THEN "rejected" ELSE "readConfig"],
                [db EXCEPT !.userBehaviorPrice =
                    IF call.existing = <<>>
                    THEN IF table # <<>> THEN table
                         ELSE <<priceBehaviorInsert(price, call.interactionType)>>
                    ELSE <<[table[1] EXCEPT
                              ![field] = set[field],
                              !.implicitPriceMin = set.implicitPriceMin,
                              !.implicitPriceMax = set.implicitPriceMax]>>])
        /\ UNCHANGED events

\* updateBlendConfig: db.query.userBlendConfig.findFirst.
ReadBlendConfig(c) ==
    /\ step(c, "readConfig",
            IF db.userBlendConfig = <<>>
            THEN [calls[c] EXCEPT !.pc = "checkDivergence"]
            ELSE [calls[c] EXCEPT !.existing = db.userBlendConfig[1],
                                  !.pc = "writeConfig"],
            db)
    /\ UNCHANGED events

\* updateBlendConfig: the update of the total and the weights.
WriteBlendConfig(c) ==
    LET set == blendConfigUpdate(calls[c].existing)
    IN  /\ step(c, "writeConfig",
                [calls[c] EXCEPT !.existing = NULL, !.pc = "checkDivergence"],
                [db EXCEPT !.userBlendConfig =
                    <<[@[1] EXCEPT !.totalInteractions = set.totalInteractions,
                                   !.explicitWeight = set.explicitWeight,
                                   !.implicitWeight = set.implicitWeight]>>])
        /\ UNCHANGED events

\* Step 6, after which the call returns.
CheckDivergence(c) ==
    /\ step(c, "checkDivergence", [calls[c] EXCEPT !.pc = "done"],
            [db EXCEPT !.userBehaviorTag = checkDivergence(db.userTag, @)])
    /\ events' = events + 1

NextConcurrent ==
    \E c \in Callers :
        \/ FindBounty(c)
        \/ ReadTagBehavior(c)
        \/ WriteTagBehavior(c)
        \/ ReadPriceBehavior(c)
        \/ WritePriceBehavior(c)
        \/ ReadBlendConfig(c)
        \/ WriteBlendConfig(c)
        \/ CheckDivergence(c)

SpecConcurrent == InitConcurrent /\ [][NextConcurrent]_vars

----------------------------------------------------------------------------
(* The recordInteraction mutation: the interaction row, the behaviour
   tracker, the user's engagement score and the bounty's metrics. *)

RecordedTypes == {"view", "like", "submit", "claim", "complete"}

\* update bounty set views (likes, submissions) + 1 where id = bountyId.
RECURSIVE updateBountyMetrics(_, _, _)
updateBountyMetrics(rows, bountyId, type) ==
    IF rows = <<>> THEN <<>>
    ELSE LET row == Head(rows)
             counted == IF row.id # bountyId THEN row
                        ELSE IF type = "view" THEN [row EXCEPT !.views = @ + 1]
                        ELSE IF type = "like" THEN [row EXCEPT !.likes = @ + 1]
                        ELSE IF type = "submit" THEN [row EXCEPT !.submissions = @ + 1]
                        ELSE row
         IN  <<counted>> \o updateBountyMetrics(Tail(rows), bountyId, type)

\* Step 3: the engagement score from the count of the user's interactions.
updateEngagement(profile, interactions) ==
    LET interactionCount == Len(interactions)
        engagementScore == IF interactionCount * 2 <= 100 THEN interactionCount * 2
                           ELSE 100
    IN  IF profile = <<>> THEN profile
        ELSE <<[profile[1] EXCEPT !.totalInteractions = interactionCount,
                                  !.engagementScore = engagementScore]>>

\* The same, feeding a claim into the behaviour tracker as a submission.
recordInteraction_ClaimAsSubmit(d, bounties, tagMap, bountyId, type) ==
    IF findBounty(bounties, bountyId) = <<>> THEN d
    ELSE LET recorded == [d EXCEPT !.bountyInteraction =
                                      Append(@, [bountyId |-> bountyId, type |-> type])]
             tracked == trackBehavior(recorded, bounties, tagMap, bountyId,
                                      IF type = "claim" THEN "submit" ELSE type)
         IN  [tracked EXCEPT
                !.userProfile = updateEngagement(@, tracked.bountyInteraction),
                !.bounty = updateBountyMetrics(@, bountyId, type)]

\* The rows after recordInteraction({bountyId, type}).  bounty_interaction
\* references bounty: for an id of no bounty the insert is rejected and the
\* mutation fails before it has written anything.
recordInteraction(d, bounties, tagMap, bountyId, type) ==
    IF findBounty(bounties, bountyId) = <<>> THEN d
    ELSE LET recorded == [d EXCEPT !.bountyInteraction =
                                      Append(@, [bountyId |-> bountyId, type |-> type])]
             tracked == IF type \in InteractionTypes
                        THEN trackBehavior(recorded, bounties, tagMap, bountyId, type)
                        ELSE recorded
         IN  [tracked EXCEPT
                !.userProfile = updateEngagement(@, tracked.bountyInteraction),
                !.bounty = updateBountyMetrics(@, bountyId, type)]

\* A user with a profile, and the bounties with no metrics yet.
WithProfile(d) ==
    [d EXCEPT !.userProfile = <<[totalInteractions |-> 0, engagementScore |-> 0]>>,
              !.bounty = <<[id |-> 1, views |-> 0, likes |-> 0, submissions |-> 0],
                           [id |-> 2, views |-> 0, likes |-> 0, submissions |-> 0]>>]

\* The profiles that n interactions of one type with one bounty, one after the
\* other, make of the profiles of S.
RECURSIVE repeatRecord(_, _, _, _)
repeatRecord(S, bountyId, type, n) ==
    IF n = 0 THEN S
    ELSE IF n = 1
    THEN {recordInteraction(d, TrackedBounties, TrackedBountyTags, bountyId, type) : d \in S}
    ELSE LET half == repeatRecord(S, bountyId, type, n \div 2)
         IN  IF half = {} THEN {}
             ELSE repeatRecord(half, bountyId, type, n - (n \div 2))

\* Earlier interactions with bounty 1: none; 49 views.
InitRecord ==
    /\ input = NoInput
    /\ allBounties = TrackedBounties
    /\ bountyTagMap = TrackedBountyTags
    /\ mutualInteractions = <<>>
    /\ out = [op |-> "none"]
    /\ db \in LET S == {WithProfile(NoDb), WithProfile(Onboarded)}
              IN  S \cup repeatRecord(S, 1, "view", 49)
    /\ calls = <<>>
    /\ events = 0
    /\ now = 0
    /\ batches = <<>>

\* The interactions of a run: any type with bounty 1, a view or a claim of
\* bounty 2 and of no bounty.
RecordedEvents ==
    ({1} \X RecordedTypes) \cup ({2, MissingBounty} \X {"view", "claim"})

RecordInteraction ==
    \E event \in RecordedEvents :
        /\ events < MaxEvents
        /\ db' = recordInteraction(db, allBounties, bountyTagMap, event[1], event[2])
        /\ events' = IF findBounty(allBounties, event[1]) # <<>> THEN events + 1
                     ELSE events
        /\ out' = [op |-> "recordInteraction", bountyId |-> event[1], type |-> event[2]]
        /\ UNCHANGED <<input, allBounties, bountyTagMap, mutualInteractions,
                       calls, now, batches>>

NextRecord == RecordInteraction

SpecRecord == InitRecord /\ [][NextRecord]_vars

----------------------------------------------------------------------------
(* The explicit skills of a user: saved during onboarding, edited by hand,
   changed in answer to a divergence prompt. *)

\* delete from user_tag where userId; insert the submitted rows.
replaceUserTags(userTags, submitted) == submitted

\* The rows after saveSkills({skills}).
saveSkills(d, skills) ==
    [d EXCEPT !.userTag = replaceUserTags(@, skills),
              !.userOnboarding = IF @ = <<>> THEN @
                                 ELSE <<[@[1] EXCEPT !.currentStep = 2]>>]

\* The rows after updateUserTags({tags}).
updateUserTags(d, tags) ==
    [d EXCEPT !.userTag = replaceUserTags(@, tags)]

\* The lists submitted in a run: the schema asks for a tag id and a score in
\* 1..5 per entry, and nothing of the list as a whole.
SkillLists ==
    {<<>>, <<UserTag(1, 5)>>, <<UserTag(2, 4), UserTag(1, 3)>>,
     <<UserTag(2, 2), UserTag(2, 5)>>}

SaveSkills ==
    \E skills \in SkillLists :
        /\ db' = saveSkills(db, skills)
        /\ out' = [op |-> "saveSkills", submitted |-> skills]
        /\ UNCHANGED <<input, allBounties, bountyTagMap, mutualInteractions,
                       calls, events, now, batches>>

UpdateUserTags ==
    \E tags \in SkillLists :
        /\ db' = updateUserTags(db, tags)
        /\ out' = [op |-> "updateUserTags", submitted |-> tags]
        /\ UNCHANGED <<input, allBounties, bountyTagMap, mutualInteractions,
                       calls, events, now, batches>>

\* The answers of a run: a skill added (the prompt offers score 3), a skill
\* removed, a prompt dismissed.
SkillResponses ==
    {[tagId |-> 1, action |-> "add_skill", newScore |-> Some(3)],
     [tagId |-> 1, action |-> "remove_skill", newScore |-> NULL],
     [tagId |-> 2, action |-> "add_skill", newScore |-> Some(3)],
     [tagId |-> 2, action |-> "dismiss", newScore |-> NULL]}

RespondAboutSkill == \E response \in SkillResponses : RespondToDivergenceOf(response)

\* Earlier events of the user on bounty 1: none; 9 completions.
InitSkills ==
    /\ input = NoInput
    /\ allBounties = TrackedBounties
    /\ bountyTagMap = TrackedBountyTags
    /\ mutualInteractions = <<>>
    /\ out = [op |-> "none"]
    /\ db \in {Onboarded} \cup repeatTrack({Onboarded}, 1, "complete", 9)
    /\ calls = <<>>
    /\ events = 0
    /\ now = 0
    /\ batches = <<>>

NextSkills == SaveSkills \/ UpdateUserTags \/ RespondAboutSkill

SpecSkills == InitSkills /\ [][NextSkills]_vars

----------------------------------------------------------------------------
(* Divergence prompts of a user who goes on editing the explicit skills. *)

NextPrompts ==
    TrackAlertEvent \/ UpdateUserTags \/ SaveSkills \/ RespondToAlert
        \/ GetDivergenceAlerts

SpecPrompts == InitAlerts /\ [][NextPrompts]_vars

----------------------------------------------------------------------------
(* getBlendedTagScores: the explicit and the implicit score of every tag of
   the user, blended with the weights of the blend config. *)

\* select name from tag where id = tagId: the name, or NULL for no such tag.
tagNameOf(tags, tagId) ==
    LET at == {i \in 1..Len(tags) : tags[i].id = tagId}
    IN  IF at = {} THEN NULL ELSE Some(tags[CHOOSE i \in at : TRUE].name)

\* user_tag inner join tag: the rows whose tag exists, with its name.
RECURSIVE joinTag(_, _)
joinTag(userTags, tags) ==
    IF userTags = <<>> THEN <<>>
    ELSE LET row == Head(userTags)
             name == tagNameOf(tags, row.tagId)
         IN  (IF name = NULL THEN <<>>
              ELSE <<[tagId |-> row.tagId, tagName |-> name[1], score |-> row.score]>>)
             \o joinTag(Tail(userTags), tags)

\* The keys of new Map(rows.map(t => [t.tagId, ...])) after the keys `seen`,
\* in the order of their first insertion.
RECURSIVE mapKeys(_, _)
mapKeys(rows, seen) ==
    IF rows = <<>> THEN seen
    ELSE mapKeys(Tail(rows),
                 IF \E i \in 1..Len(seen) : seen[i] = Head(rows).tagId THEN seen
                 ELSE Append(seen, Head(rows).tagId))

\* map.get(tagId): the last row of the tag id, or NULL.
mapGet(rows, tagId) ==
    LET at == {i \in 1..Len(rows) : rows[i].tagId = tagId}
    IN  IF at = {} THEN NULL ELSE rows[CHOOSE i \in at : \A j \in at : j <= i]

\* `Tag ${tagId}`
placeholderName(tagId) == "Tag " \o ToString(tagId)

\* One entry of the result.
blendedEntry(tagId, explicit, implicit, tags, explicitWeight, implicitWeight) ==
    LET explicitScore == IF explicit = NULL THEN R(0) ELSE R(explicit.score)
        implicitScore == IF implicit = NULL THEN R(0) ELSE implicit.implicitScore
    IN  [tagId |-> tagId,
         tagName |-> IF explicit # NULL THEN explicit.tagName
                     ELSE IF tagNameOf(tags, tagId) # NULL THEN tagNameOf(tags, tagId)[1]
                     ELSE placeholderName(tagId),
         explicitScore |-> explicitScore,
         implicitScore |-> implicitScore,
         blendedScore |-> RAdd(RMul(explicitScore, explicitWeight),
                               RMul(implicitScore, implicitWeight)),
         divergent |-> IF implicit = NULL THEN FALSE ELSE implicit.divergenceDetected]

\* The same, putting the entry behind the entries that score more.
insertByBlended_Ascending(sorted, entry) ==
    LET before == {i \in 1..Len(sorted) :
                      RLe(sorted[i].blendedScore, entry.blendedScore)}
    IN  SubSeq(sorted, 1, Cardinality(before)) \o <<entry>>
            \o SubSeq(sorted, Cardinality(before) + 1, Len(sorted))

\* results.sort((a, b) => b.blendedScore - a.blendedScore) is stable: an entry
\* goes behind the entries that score as much or more.
insertByBlended(sorted, entry) ==
    LET before == {i \in 1..Len(sorted) :
                      RLe(entry.blendedScore, sorted[i].blendedScore)}
    IN  SubSeq(sorted, 1, Cardinality(before)) \o <<entry>>
            \o SubSeq(sorted, Cardinality(before) + 1, Len(sorted))

RECURSIVE sortByBlended(_)
sortByBlended(results) ==
    IF results = <<>> THEN <<>>
    ELSE insertByBlended(sortByBlended(SubSeq(results, 1, Len(results) - 1)),
                         results[Len(results)])

\* What getBlendedTagScores(userId) returns.
getBlendedTagScores(d) ==
    LET config == d.userBlendConfig
        explicitWeight == IF config = <<>> THEN Frac(8, 10) ELSE config[1].explicitWeight
        implicitWeight == IF config = <<>> THEN Frac(2, 10) ELSE config[1].implicitWeight
        explicitTags == joinTag(d.userTag, d.tag)
        implicitTags == d.userBehaviorTag
        allTagIds == mapKeys(implicitTags, mapKeys(explicitTags, <<>>))
    IN  sortByBlended([i \in 1..Len(allTagIds) |->
            blendedEntry(allTagIds[i], mapGet(explicitTags, allTagIds[i]),
                         mapGet(implicitTags, allTagIds[i]), d.tag,
                         explicitWeight, implicitWeight)])

\* A tag deleted: user_tag rows go with it (on delete cascade), user_behavior_tag
\* rows, which do not reference the tag table, stay.
deleteTag(d, tagId) ==
    [d EXCEPT !.tag = SelectSeq(@, LAMBDA row : row.id # tagId),
              !.userTag = SelectSeq(@, LAMBDA row : row.tagId # tagId)]

\* The users of a run: with or without onboarding rows, with a list of
\* explicit skills, with earlier events, with a tag deleted since or not.
BlendedUsers ==
    LET starts == {[start EXCEPT !.userTag = userTags] :
                      start \in {NoDb, Onboarded},
                      userTags \in ExplicitTagLists \cup SkillLists}
    IN  Histories(starts)
            \cup {deleteTag(d, tagId) : d \in Histories(starts), tagId \in {1, 2}}

InitBlended ==
    /\ input = NoInput
    /\ allBounties = TrackedBounties
    /\ bountyTagMap = TrackedBountyTags
    /\ mutualInteractions = <<>>
    /\ out = [op |-> "none"]
    /\ db \in BlendedUsers
    /\ calls = <<>>
    /\ events = 0
    /\ now = 0
    /\ batches = <<>>

GetBlendedTagScores ==
    /\ out' = [op |-> "getBlendedTagScores", result |-> getBlendedTagScores(db)]
    /\ UNCHANGED <<input, allBounties, bountyTagMap, mutualInteractions, tracking>>

NextBlended == GetBlendedTagScores

SpecBlended == InitBlended /\ [][NextBlended]_vars

----------------------------------------------------------------------------
(* The social graph: getMutualsThreeLayers expands the stored edges of the
   user to three layers, and the feed hands the result to the scoring engine. *)

\* One entry of the result.
connection(m, layer, strength) ==
    [mutualId |-> m.mutualId, layer |-> layer, strength |-> strength]

\* The same, handing on the stored strength of every edge as it is.
RECURSIVE discovered_NoDecay(_, _, _, _)
discovered_NoDecay(rows, known, layer, decay) ==
    IF rows = <<>> THEN <<>>
    ELSE (IF Head(rows).mutualId \in known THEN <<>>
          ELSE <<connection(Head(rows), layer, Head(rows).strength)>>)
         \o discovered_NoDecay(Tail(rows), known, layer, decay)

\* The same, keeping the layer stored with the edge.
RECURSIVE discovered_StoredLayer(_, _, _, _)
discovered_StoredLayer(rows, known, layer, decay) ==
    IF rows = <<>> THEN <<>>
    ELSE (IF Head(rows).mutualId \in known THEN <<>>
          ELSE <<connection(Head(rows), Head(rows).layer,
                            RMul(Head(rows).strength, decay))>>)
         \o discovered_StoredLayer(Tail(rows), known, layer, decay)

\* The loop over the rows of a layer: a row whose target is not known yet is
\* pushed with the layer and the decayed strength.
RECURSIVE discovered(_, _, _, _)
discovered(rows, known, layer, decay) ==
    IF rows = <<>> THEN <<>>
    ELSE (IF Head(rows).mutualId \in known THEN <<>>
          ELSE <<connection(Head(rows), layer, RMul(Head(rows).strength, decay))>>)
         \o discovered(Tail(rows), known, layer, decay)

\* The mutualIds of a list of entries.
idsOf(entries) == {entries[i].mutualId : i \in 1..Len(entries)}

\* select from mutual where userId in (...) and mutualId != userId.
mutualsOf(table, userIds, userId) ==
    SelectSeq(table, LAMBDA m : m.userId \in userIds /\ m.mutualId # userId)

getMutualsThreeLayers(table, userId) ==
    LET layer1 == SelectSeq(table, LAMBDA m : m.userId = userId)
        layer1Ids == idsOf(layer1)
        direct == [i \in 1..Len(layer1) |-> connection(layer1[i], 1, layer1[i].strength)]
        layer2Raw == mutualsOf(table, layer1Ids, userId)
        layer2 == discovered(layer2Raw, layer1Ids \cup {userId}, 2, Frac(1, 2))
        layer2Ids == idsOf(layer2)
        layer3Raw == mutualsOf(table, layer2Ids, userId)
        layer3 == discovered(layer3Raw, layer1Ids \cup layer2Ids \cup {userId},
                             3, Frac(1, 4))
    IN  IF layer1 = <<>> THEN <<>>
        ELSE direct \o layer2 \o (IF layer2Ids # {} THEN layer3 ELSE <<>>)

\* Step 6 of the feed: the bounties the listed mutuals interacted with.
fetchMutualInteractions(interactions, mutualIds) ==
    [m \in mutualIds \cap DOMAIN interactions |-> interactions[m]]

\* The requesting user.
Me == "me"

Edge(u, m, l, s) == [userId |-> u, mutualId |-> m, layer |-> l, strength |-> s]

\* The edges a stored graph is drawn from, in the order of the table.  The
\* layer stored with an edge need not be the layer it is discovered at.
CandidateEdges ==
    <<Edge(Me, "a", 1, R(1)), Edge(Me, "b", 2, Frac(1, 2)),
      Edge("a", "b", 1, R(1)), Edge("a", "c", 1, R(1)),
      Edge("b", "c", 3, Frac(1, 2)), Edge("a", Me, 1, R(1)),
      Edge("c", "d", 1, R(1)), Edge("b", "d", 1, Frac(1, 2)),
      Edge("c", "a", 2, R(1)), Edge("d", "e", 1, R(1)),
      Edge(Me, Me, 1, R(1)), Edge(Me, "a", 1, Frac(1, 2))>>

\* The rows of CandidateEdges at the indices of S, in order.
RECURSIVE edgesAt(_, _)
edgesAt(S, n) ==
    IF n = 0 THEN <<>>
    ELSE edgesAt(S, n - 1) \o (IF n \in S THEN <<CandidateEdges[n]>> ELSE <<>>)

\* Who interacted with bounty 1: everybody, a and c only, d only.
InteractionMaps ==
    {[m \in {"a", "b", "c", "d", "e"} |-> {1}],
     [m \in {"a", "c"} |-> {1}],
     [m \in {"d"} |-> {1, 2}]}

InitMutuals ==
    /\ input = NoInput
    /\ allBounties = TrackedBounties
    /\ bountyTagMap = TrackedBountyTags
    /\ mutualInteractions \in InteractionMaps
    /\ out = [op |-> "none"]
    /\ \E S \in SUBSET (1..Len(CandidateEdges)) :
          db = [NoDb EXCEPT !.mutual = edgesAt(S, Len(CandidateEdges))]
    /\ calls = <<>>
    /\ events = 0
    /\ now = 0
    /\ batches = <<>>

GetMutualsThreeLayers ==
    /\ out' = [op |-> "getMutualsThreeLayers",
               result |-> getMutualsThreeLayers(db.mutual, Me)]
    /\ UNCHANGED <<input, allBounties, bountyTagMap, mutualInteractions, tracking>>

\* Steps 3, 6 and 7 of the feed, as far as the social boost of bounty 1 goes.
SocialBoostOfFeed ==
    LET userMutuals == getMutualsThreeLayers(db.mutual, Me)
        fetched == fetchMutualInteractions(mutualInteractions, idsOf(userMutuals))
    IN  /\ out' = [op |-> "socialBoostOfFeed", mutuals |-> userMutuals,
                   result |-> computeSocialBoost(1, userMutuals, fetched)]
        /\ UNCHANGED <<input, allBounties, bountyTagMap, mutualInteractions, tracking>>

NextMutuals == GetMutualsThreeLayers \/ SocialBoostOfFeed

SpecMutuals == InitMutuals /\ [][NextMutuals]_vars

----------------------------------------------------------------------------
(* Vocabulary of the properties. *)

Range(s) == {s[i] : i \in DOMAIN s}

TierLevel(t) == CASE t = "basic" -> 1 [] t = "middle" -> 2 [] t = "high" -> 3

UserLevel == TierLevel(input.userProfile.accessTier)

Recommended == out.op = "getRecommendations" /\ ~out.result.threw
RecommendationFailed == out.op = "getRecommendations" /\ out.result.threw
Fed == out.op = "scoreAllBounties"

\* Every accessible bounty with its scores, in input order.
Scored == scoreAll(input, allBounties, bountyTagMap, mutualInteractions)

QualifiedOf(S) == {e \in S : RLe(R(3), e.relevanceScore)}

\* The scored bounties a call handed back.
Returned ==
    IF Recommended THEN {out.result.primary, out.result.secondary}
    ELSE IF Fed THEN Range(out.result)
    ELSE {}

IdsOf(s) == [i \in 1..Len(s) |-> s[i].bounty.id]

\* e has the best final score of the set S, f the best of the rest.
BestOf(e, S) == e \in S /\ \A x \in S : RLe(x.finalScore, e.finalScore)
SecondOf(f, e, S) ==
    /\ f \in S
    /\ f.bounty.id # e.bounty.id
    /\ \A x \in S : x.bounty.id # e.bounty.id => RLe(x.finalScore, f.finalScore)

\* Bounties with a weak tag match whose final score is more than 0.2 x primary's.
StretchCandidatesOf(S, primary) ==
    {e \in S :
        /\ RLt(e.relevanceScore, R(3))
        /\ RLt(RMul(Frac(2, 10), primary.finalScore), e.finalScore)}

Min2(a, b) == IF a < b THEN a ELSE b

WeightedSum(e) ==
    RAdd(RAdd(RMul(RDiv(e.relevanceScore, R(10)), Frac(55, 10)),
              RMul(RDiv(e.socialBoost, R(2)), Frac(15, 10))),
         RAdd(RMul(e.priceAffinity, R(2)),
              RMul(Frac(Min2(e.bounty.engagementScore, 10), 10), R(1))))

\* The end-to-end scenario: a middle-tier user with avgPriceViewed 500, score 5
\* on the single weight-1 tag of a middle-tier bounty priced 600, engagement 0,
\* no mutuals.
IsScenario(e) ==
    /\ input.userProfile.accessTier = "middle"
    /\ input.userProfile.avgPriceViewed = 500
    /\ input.mutuals = <<>>
    /\ e.bounty.tier = "middle"
    /\ e.bounty.price = 600
    /\ e.bounty.engagementScore = 0
    /\ LET tags == tagsOf(bountyTagMap, e.bounty.id)
       IN  /\ Len(tags) = 1
           /\ tags[1].weight = R(1)
           /\ \E i \in 1..Len(input.userTags) :
                /\ input.userTags[i].tagId = tags[1].tagId
                /\ input.userTags[i].score = 5

----------------------------------------------------------------------------
(* C1: every scored bounty returned by getRecommendations or scoreAllBounties
   has finalScore = (relevance/10)*5.5 + (socialBoost/2)*1.5 + priceAffinity*2.0
   + (min(engagementScore,10)/10)*1.0, within [0,10]; the end-to-end scenario
   scores relevance 10, priceAffinity 1.0, socialBoost 0, finalScore 7.5. *)
C1_FinalScoreIsWeightedSum ==
    \A e \in Returned :
        /\ e.finalScore = WeightedSum(e)
        /\ RLe(R(0), e.finalScore) /\ RLe(e.finalScore, R(10))
        /\ IsScenario(e) =>
            /\ e.relevanceScore = R(10)
            /\ e.priceAffinity = R(1)
            /\ e.socialBoost = R(0)
            /\ e.finalScore = Frac(75, 10)

C1_Witness ==
    /\ Recommended
    /\ IsScenario(out.result.primary)
    /\ out.result.primary.finalScore = Frac(75, 10)

(* C2: whenever some accessible bounty has relevanceScore < 3.0 and finalScore
   > 0.2 x primary.finalScore, the secondary returned by getRecommendations is
   the highest-finalScore bounty among those bounties (primary, the first pick,
   is not a candidate for the second). *)
C2_SecondaryIsBestStretch ==
    Recommended =>
        LET others == {e \in Range(Scored) :
                          e.bounty.id # out.result.primary.bounty.id}
            candidates == StretchCandidatesOf(others, out.result.primary)
        IN  candidates # {} => BestOf(out.result.secondary, candidates)

(* C3: when some bounty is accessible and every accessible bounty has relevance
   < 3.0, getRecommendations succeeds with primary the best accessible bounty by
   finalScore, secondary the second best (primary itself when only one bounty is
   accessible) and debug.filteredByRelevance = 0; every other successful result
   has debug.filteredByRelevance >= 1. *)
C3_FallbackIsSignalled ==
    out.op = "getRecommendations" =>
        LET accessible == Range(Scored)
            qualified == QualifiedOf(accessible)
        IN  /\ (accessible # {} /\ qualified = {}) =>
                /\ Recommended
                /\ BestOf(out.result.primary, accessible)
                /\ Cardinality(accessible) >= 2 =>
                    SecondOf(out.result.secondary, out.result.primary, accessible)
                /\ Cardinality(accessible) = 1 =>
                    out.result.secondary = out.result.primary
                /\ out.result.debug.filteredByRelevance = 0
            /\ (Recommended /\ qualified # {}) =>
                out.result.debug.filteredByRelevance >= 1

C3_Witness ==
    /\ Recommended
    /\ Len(Scored) >= 2
    /\ QualifiedOf(Range(Scored)) = {}
    /\ out.result.debug.filteredByRelevance = 0
    /\ out.result.secondary.bounty.id # out.result.primary.bounty.id
    /\ RLt(out.result.secondary.finalScore, out.result.primary.finalScore)

(* C4: when some accessible bounty has relevance >= 3.0, the primary returned by
   getRecommendations has relevance >= 3.0 and the highest finalScore of all
   accessible bounties with relevance >= 3.0, and secondary.finalScore <=
   primary.finalScore. *)
C4_PrimaryIsBestQualified ==
    out.op = "getRecommendations" =>
        LET qualified == QualifiedOf(Range(Scored))
        IN  qualified # {} =>
                /\ Recommended
                /\ BestOf(out.result.primary, qualified)
                /\ RLe(out.result.secondary.finalScore, out.result.primary.finalScore)

C4_Witness ==
    /\ Recommended
    /\ Cardinality(QualifiedOf(Range(Scored))) >= 2
    /\ out.result.primary.bounty.id = 2
    /\ RLt(out.result.secondary.finalScore, out.result.primary.finalScore)

(* C5: when no stretch candidate qualifies, the secondary returned by
   getRecommendations is the second-ranked bounty (by finalScore) of the
   relevance-filtered list, and primary itself when exactly one bounty passes
   the relevance filter. *)
C5_SecondaryFallsBackToSecondRanked ==
    Recommended =>
        LET accessible == Range(Scored)
            qualified == QualifiedOf(accessible)
        IN  (qualified # {} /\ StretchCandidatesOf(accessible, out.result.primary) = {}) =>
                /\ Cardinality(qualified) >= 2 =>
                    SecondOf(out.result.secondary, out.result.primary, qualified)
                /\ Cardinality(qualified) = 1 =>
                    out.result.secondary = out.result.primary

C5_Witness ==
    /\ Recommended
    /\ Cardinality(QualifiedOf(Range(Scored))) >= 2
    /\ StretchCandidatesOf(Range(Scored), out.result.primary) = {}
    /\ out.result.secondary.bounty.id # out.result.primary.bounty.id

(* C6: scoreAllBounties with applyRelevanceFilter = true returns exactly the
   accessible bounties with relevance >= 3.0 (none when none qualifies), with
   applyRelevanceFilter = false one entry per accessible bounty; entries keep
   the input order and no bounty id appears twice. *)
C6_FeedIsFilteredInOrder ==
    Fed =>
        LET keeps(b) ==
                /\ TierLevel(b.tier) <= UserLevel
                /\ out.applyRelevanceFilter =>
                    RLe(R(3), computeRelevanceScore(input.userTags,
                                                    tagsOf(bountyTagMap, b.id)))
            ids == IdsOf(out.result)
            kept == SelectSeq(allBounties, keeps)
        IN  /\ ids = [i \in 1..Len(kept) |-> kept[i].id]
            /\ \A i, j \in 1..Len(ids) : ids[i] = ids[j] => i = j
            /\ \A i \in 1..Len(ids) : out.result[i].bounty = allBounties[ids[i]]

C6_Witness ==
    /\ Fed
    /\ out.applyRelevanceFilter
    /\ out.result = <<>>
    /\ Len(Scored) >= 2

(* C7: filterByAccessTier keeps exactly the bounties whose tier level (basic 1,
   middle 2, high 3) is <= the user's level, in scoreAllBounties and in
   getRecommendations: no returned bounty is above the user's tier. *)
C7_OnlyAccessibleTiers ==
    LET accessible == {i \in 1..Len(allBounties) :
                          TierLevel(allBounties[i].tier) <= UserLevel}
    IN  /\ \A e \in Returned : TierLevel(e.bounty.tier) <= UserLevel
        /\ Recommended => out.result.debug.filteredByTier = Cardinality(accessible)
        /\ RecommendationFailed => accessible = {}
        /\ (Fed /\ ~out.applyRelevanceFilter) =>
            {e.bounty.id : e \in Range(out.result)} = accessible

C7_Witness ==
    /\ Recommended
    /\ input.userProfile.accessTier = "basic"
    /\ \E i \in 1..Len(allBounties) : allBounties[i].tier = "middle"
    /\ out.result.debug.filteredByTier = 1

VisibleIds(t) == {b.id : b \in Range(out.visible[t])}

Filtered(t) == out.op = "filterByAccessTier" /\ t \in DOMAIN out.visible

StrictSubset(A, B) == A \subseteq B /\ A # B

HasTier(t) == \E i \in 1..Len(allBounties) : allBounties[i].tier = t

(* C8 as stated: for every bounty list, what a basic-tier user sees is a strict
   subset of what a middle-tier user sees, which is a strict subset of what a
   high-tier user sees. *)
C8_StrictlyMonotonic ==
    /\ (Filtered("basic") /\ Filtered("middle")) =>
        StrictSubset(VisibleIds("basic"), VisibleIds("middle"))
    /\ (Filtered("middle") /\ Filtered("high")) =>
        StrictSubset(VisibleIds("middle"), VisibleIds("high"))

(* C8 amended: what a basic-tier user sees is a subset of what a middle-tier
   user sees, which is a subset of what a high-tier user sees; the inclusion is
   strict exactly when the list holds a middle-tier (resp. high-tier) bounty. *)
C8_Monotonic ==
    /\ (Filtered("basic") /\ Filtered("middle")) =>
        /\ VisibleIds("basic") \subseteq VisibleIds("middle")
        /\ VisibleIds("basic") # VisibleIds("middle") <=> HasTier("middle")
    /\ (Filtered("middle") /\ Filtered("high")) =>
        /\ VisibleIds("middle") \subseteq VisibleIds("high")
        /\ VisibleIds("middle") # VisibleIds("high") <=> HasTier("high")

C8_Witness ==
    /\ Filtered("basic") /\ Filtered("middle") /\ Filtered("high")
    /\ HasTier("basic") /\ HasTier("middle")
    /\ StrictSubset(VisibleIds("basic"), VisibleIds("middle"))
    /\ VisibleIds("middle") = VisibleIds("high")

(* C9: getRecommendations raises an error exactly when no bounty passes the
   access-tier filter (an empty bounty list included); scoreAllBounties on such
   an input returns an empty list. *)
C9_NoCandidatesIsFatalOnlyForRecommendations ==
    LET noneAccessible == \A i \in 1..Len(allBounties) :
                              TierLevel(allBounties[i].tier) > UserLevel
    IN  /\ out.op = "getRecommendations" => (out.result.threw <=> noneAccessible)
        /\ (Fed /\ noneAccessible) => out.result = <<>>

C9_Witness ==
    /\ RecommendationFailed
    /\ allBounties # <<>>

----------------------------------------------------------------------------
RelevanceTags == tagsOf(bountyTagMap, 1)

ScoreOfUser(t) ==
    IF \E i \in 1..Len(input.userTags) : input.userTags[i].tagId = t
    THEN (CHOOSE ut \in Range(input.userTags) : ut.tagId = t).score
    ELSE 0

RECURSIVE SumTo(_, _)
SumTo(n, f) == IF n = 0 THEN R(0) ELSE RAdd(f[n], SumTo(n - 1, f))

(* C10: computeRelevanceScore is (sum of userScore(tag) x weight) / (sum of
   weights) x 2 over the bounty's tags, userScore 0 for a tag the user lacks;
   0 when the bounty has no tags, the weights sum to 0 or the user has none of
   the tags; within [0,10]; a single weight-1 tag with user score 5 gives 10. *)
C10_RelevanceIsWeightedAverage ==
    out.op = "computeRelevanceScore" =>
        LET n == Len(RelevanceTags)
            products == [i \in 1..n |->
                RMul(R(ScoreOfUser(RelevanceTags[i].tagId)), RelevanceTags[i].weight)]
            weights == [i \in 1..n |-> RelevanceTags[i].weight]
            sumProducts == SumTo(n, products)
            sumWeights == SumTo(n, weights)
        IN  /\ out.result = IF n = 0 \/ sumWeights = R(0) THEN R(0)
                            ELSE RMul(RDiv(sumProducts, sumWeights), R(2))
            /\ (\A i \in 1..n : ScoreOfUser(RelevanceTags[i].tagId) = 0) =>
                out.result = R(0)
            /\ RLe(R(0), out.result) /\ RLe(out.result, R(10))
            /\ (n = 1 /\ RelevanceTags[1].weight = R(1)
                      /\ ScoreOfUser(RelevanceTags[1].tagId) = 5) =>
                out.result = R(10)

C10_Witness ==
    /\ out.op = "computeRelevanceScore"
    /\ Len(RelevanceTags) = 2
    /\ RelevanceTags[1].weight = R(1) /\ RelevanceTags[2].weight = Frac(1, 2)
    /\ ScoreOfUser(RelevanceTags[1].tagId) = 5
    /\ ScoreOfUser(RelevanceTags[2].tagId) = 0
    /\ out.result = Frac(20, 3)

----------------------------------------------------------------------------
ExpectedHistoryScore(price, avg) ==
    IF 2 * price >= avg /\ price <= 2 * avg THEN R(1)
    ELSE IF 2 * price < avg
         THEN (IF 20 * price >= avg THEN Frac(2 * price, avg) ELSE Frac(1, 10))
         ELSE (IF price <= 10 * avg THEN Frac(2 * avg, price) ELSE Frac(2, 10))

ExpectedTierBonus(diff) ==
    CASE diff = 0 -> Frac(1, 10)
      [] diff = 1 -> R(0)
      [] diff >= 2 -> Frac(-1, 10)
      [] OTHER -> R(0)

Clamp01(x) == IF RLt(x, R(0)) THEN R(0) ELSE IF RLt(R(1), x) THEN R(1) ELSE x

(* C11: computePriceAffinityTierAware returns, when avgPriceViewed <= 0, 0.8 if
   the bounty tier equals the user's access tier and 0.5 otherwise, for any
   price; otherwise clamp(historyScore + tierBonus, 0, 1), historyScore being
   1.0 for price/avg in [0.5, 2.0], max(0.1, 2 x ratio) below and
   max(0.2, 2/ratio) above, tierBonus +0.1, 0, -0.1 for a tier difference of
   0, 1, >= 2; the result lies in [0,1] and is 1.0 when price = avgPriceViewed
   and the tiers match. *)
C11_PriceAffinityIsClampedHistoryPlusTierBonus ==
    out.op = "computePriceAffinityTierAware" =>
        LET price == allBounties[1].price
            avg == input.userProfile.avgPriceViewed
            sameTier == allBounties[1].tier = input.userProfile.accessTier
            diff == UserLevel - TierLevel(allBounties[1].tier)
        IN  /\ avg <= 0 => out.result = (IF sameTier THEN Frac(8, 10) ELSE Frac(5, 10))
            /\ avg > 0 => out.result = Clamp01(RAdd(ExpectedHistoryScore(price, avg),
                                                    ExpectedTierBonus(diff)))
            /\ RLe(R(0), out.result) /\ RLe(out.result, R(1))
            /\ (avg > 0 /\ price = avg /\ sameTier) => out.result = R(1)

C11_Witness ==
    /\ out.op = "computePriceAffinityTierAware"
    /\ allBounties[1].price = 5000 /\ allBounties[1].tier = "basic"
    /\ input.userProfile.avgPriceViewed = 500
    /\ input.userProfile.accessTier = "high"
    /\ out.result = Frac(1, 10)

----------------------------------------------------------------------------
LayerMultiplier(layer) ==
    CASE layer = 1 -> R(1) [] layer = 2 -> Frac(1, 2) [] layer = 3 -> Frac(1, 4)

Interacted(mutual) ==
    /\ mutual.mutualId \in DOMAIN mutualInteractions
    /\ 1 \in mutualInteractions[mutual.mutualId]

SocialBoosted == out.op = "computeSocialBoost"

\* The mutuals of the call that interacted with the bounty.
InteractingOf(mutuals) == {i \in 1..Len(mutuals) : Interacted(mutuals[i])}

\* The result of the call is the capped sum of the interacting mutuals' shares.
SocialBoostIsCappedSum ==
    SocialBoosted =>
        LET ms == out.mutuals
            n == Len(ms)
            shares == [i \in 1..n |->
                IF Interacted(ms[i])
                THEN RMul(ms[i].strength, LayerMultiplier(ms[i].layer))
                ELSE R(0)]
            sum == SumTo(n, shares)
        IN  /\ out.result = (IF RLe(R(2), sum) THEN R(2) ELSE sum)
            /\ RLe(out.result, R(2))
            /\ (n = 1 /\ Interacted(ms[1]) /\ ms[1].layer = 1 /\ ms[1].strength = R(1))
                    => out.result = R(1)

(* C12: computeSocialBoost returns min(2.0, sum over the mutuals whose
   interaction list contains the bounty of strength x 1/2^(layer-1)); it is
   never above 2.0, is exactly 1.0 for a single interacting layer-1 mutual of
   strength 1.0, and the boost computed after mutuals were added (an
   interacting one in particular) is never below the boost computed before. *)
C12_SocialBoostIsMonotoneCappedSum ==
    /\ []SocialBoostIsCappedSum
    /\ [][(SocialBoosted /\ out'.op = "computeSocialBoost") =>
            RLe(out.result, out'.result)]_vars

\* The cap is reached from layer-2 and layer-3 mutuals alone, by a call that
\* follows the addition of one more interacting mutual.
C12_Witness ==
    /\ SocialBoosted
    /\ out.mutuals = input.mutuals
    /\ out.result = R(2)
    /\ Len(out.mutuals) = Cardinality(InteractingOf(out.mutuals))
    /\ \A i \in 1..Len(out.mutuals) : out.mutuals[i].layer >= 2

----------------------------------------------------------------------------
\* The user tag lists differ in the score of exactly one tag, which went up.
OneScoreRaised(before, after) ==
    /\ Len(before) = Len(after)
    /\ \E i \in 1..Len(before) :
        /\ before[i].tagId = after[i].tagId
        /\ before[i].score < after[i].score
        /\ \A j \in 1..Len(before) : j # i => before[j] = after[j]

(* C13: for any bounty tag list with non-negative weights, raising a single
   user tag score while holding the others fixed never decreases
   computeRelevanceScore. *)
C13_RelevanceIsMonotonicInUserScore ==
    [][(/\ out.op = "computeRelevanceScore"
        /\ out'.op = "computeRelevanceScore"
        /\ OneScoreRaised(out.userTags, out'.userTags))
            => RLe(out.result, out'.result)]_vars

\* Raising the score of the tag the bounty carries raised the relevance; the
\* previous call gave 4/3 x 2 for scores (2, 1) on weights (1, 1/2).
C13_Witness ==
    /\ out.op = "computeRelevanceScore"
    /\ out.userTags = <<UserTag(1, 1), UserTag(2, 2)>>
    /\ input.userTags = <<UserTag(1, 4), UserTag(2, 2)>>
    /\ Len(RelevanceTags) = 2
    /\ RelevanceTags[1] = Tag(1, R(1)) /\ RelevanceTags[2] = Tag(2, Frac(1, 2))
    /\ out.result = Frac(8, 3)

----------------------------------------------------------------------------
\* The weights the trust curve gives after n interactions.
ExpectedWeights(n) ==
    IF n < 10 THEN <<Frac(8, 10), Frac(2, 10)>>
    ELSE IF n < 50 THEN <<Frac(320 - 3 * (n - 10), 400), Frac(80 + 3 * (n - 10), 400)>>
    ELSE IF n < 100 THEN <<Frac(5, 10), Frac(5, 10)>>
    ELSE <<Frac(3, 10), Frac(7, 10)>>

(* C14: for a user whose blend config exists, after the n-th tracked behaviour
   event the stored config has totalInteractions = n and (explicitWeight,
   implicitWeight) = (0.8, 0.2) for n < 10, (0.8 - 0.3(n-10)/40,
   0.2 + 0.3(n-10)/40) for 10 <= n < 50, (0.5, 0.5) for 50 <= n < 100 and
   (0.3, 0.7) for n >= 100; the weights sum to 1.0 in every reachable state,
   and n = 30 gives (0.65, 0.35). *)
C14_BlendWeightsFollowTrustCurve ==
    db.userBlendConfig # <<>> =>
        LET config == db.userBlendConfig[1]
        IN  /\ config.totalInteractions = events
            /\ <<config.explicitWeight, config.implicitWeight>> = ExpectedWeights(events)
            /\ RAdd(config.explicitWeight, config.implicitWeight) = R(1)
            /\ events = 30 => /\ config.explicitWeight = Frac(65, 100)
                              /\ config.implicitWeight = Frac(35, 100)

C14_Witness ==
    /\ out.op = "trackBehavior"
    /\ events = 49
    /\ db.userBlendConfig[1].totalInteractions = 49
    /\ db.userBlendConfig[1].explicitWeight = Frac(203, 400)
    /\ db.userBlendConfig[1].implicitWeight = Frac(197, 400)

----------------------------------------------------------------------------
BehaviorTagIds == {db.userBehaviorTag[i].tagId : i \in 1..Len(db.userBehaviorTag)}

\* The behaviour row of a tag (one per tag when events run one after the other).
BehaviorOf(table, tagId) == findFirst(table, tagId)

Tracked == out.op = "trackBehavior"

(* C19: across any sequence of trackBehavior calls with no other writer, no
   value of a (user, tag) behaviour record ever decreases: the four event
   counters, the four per-type scores and implicitScore are non-decreasing from
   one state to the next. *)
C19_BehaviorNeverDecreases ==
    [][\A tagId \in BehaviorTagIds :
        LET before == BehaviorOf(db.userBehaviorTag, tagId)
            after == BehaviorOf(db'.userBehaviorTag, tagId)
        IN  /\ \A t \in InteractionTypes :
                /\ before[countField[t]] <= after[countField[t]]
                /\ RLe(before[scoreField[t]], after[scoreField[t]])
            /\ RLe(before.implicitScore, after.implicitScore)]_vars

----------------------------------------------------------------------------
InUnit(x) == RLe(R(0), x) /\ RLe(x, R(1))
InTen(x) == RLe(R(0), x) /\ RLe(x, R(10))

(* C20: in every state reachable by behaviour events, each per-type score
   (view/like/submit/complete) and implicitScore of every behaviour tag lies in
   [0,10], and explicitWeight and implicitWeight each lie in [0,1]. *)
C20_ScoresAndWeightsStayInBounds ==
    /\ \A i \in 1..Len(db.userBehaviorTag) :
        /\ \A t \in InteractionTypes : InTen(db.userBehaviorTag[i][scoreField[t]])
        /\ InTen(db.userBehaviorTag[i].implicitScore)
    /\ \A i \in 1..Len(db.userBlendConfig) :
        /\ InUnit(db.userBlendConfig[i].explicitWeight)
        /\ InUnit(db.userBlendConfig[i].implicitWeight)

\* One more view after fifty: the view score stays at its bound 10, and the
\* weights have reached (0.3, 0.7).
C20_Witness ==
    /\ Tracked /\ out.interactionType = "view" /\ out.bountyId = 1
    /\ BehaviorOf(db.userBehaviorTag, 1).viewCount = 51
    /\ BehaviorOf(db.userBehaviorTag, 1).viewScore = R(10)
    /\ BehaviorOf(db.userBehaviorTag, 1).implicitScore = R(10)
    /\ db.userBlendConfig # <<>>
    /\ db.userBlendConfig[1].implicitWeight = Frac(7, 10)

----------------------------------------------------------------------------
\* The explicit scores the user's userTag rows give a tag (none: no such skill).
ExplicitScores(d, tagId) ==
    {d.userTag[i].score : i \in {j \in 1..Len(d.userTag) : d.userTag[j].tagId = tagId}}

\* The last call was a trackBehavior that found its bounty.
TrackedBounty == Tracked /\ findBounty(allBounties, out.bountyId) # <<>>

NewInterest(d, row) ==
    ExplicitScores(d, row.tagId) = {} /\ RLe(R(3), row.implicitScore)

UnusedSkill(d, row, score) ==
    ExplicitScores(d, row.tagId) = {score} /\ score >= 4 /\ RLt(row.implicitScore, R(1))

\* Every behaviour tag that diverges is flagged, with the explicit score seen.
DivergenceIsFlagged ==
    TrackedBounty =>
        \A i \in 1..Len(db.userBehaviorTag) :
            LET row == db.userBehaviorTag[i]
            IN  /\ NewInterest(db, row) =>
                    row.divergenceDetected /\ row.lastExplicitScore = R(0)
                /\ \A score \in 1..5 : UnusedSkill(db, row, score) =>
                    row.divergenceDetected /\ row.lastExplicitScore = R(score)

\* A tag that was not flagged (or had no row) and meets neither condition
\* after the call (no explicit row of it scores >= 4) is not flagged by it.
OnlyDivergenceIsFlagged ==
    (out'.op = "trackBehavior") =>
        \A i \in 1..Len(db'.userBehaviorTag) :
            LET row == db'.userBehaviorTag[i]
                before == BehaviorOf(db.userBehaviorTag, row.tagId)
            IN  (/\ before = <<>> \/ ~before.divergenceDetected
                 /\ ~NewInterest(db', row)
                 /\ ~(/\ \E score \in ExplicitScores(db', row.tagId) : score >= 4
                       /\ RLt(row.implicitScore, R(1))))
                    => ~row.divergenceDetected

(* C15: after trackBehavior completes, every behaviour tag of the user with no
   explicit score and implicitScore >= 3 has divergenceDetected = true with
   lastExplicitScore = 0, and every behaviour tag with explicit score >= 4 and
   implicitScore < 1 has divergenceDetected = true with lastExplicitScore equal
   to that explicit score; a previously unflagged tag meeting neither
   condition is not flagged. *)
C15_DivergenceIsFlaggedExactly ==
    []DivergenceIsFlagged /\ [][OnlyDivergenceIsFlagged]_vars

\* The tenth completion of bounty 2: tag 2 (no explicit score, implicit 3.2) is
\* flagged as a new interest, tag 1 (explicit 5, implicit 2.88) is not flagged.
C15_Witness ==
    /\ TrackedBounty /\ out.bountyId = 2 /\ out.interactionType = "complete"
    /\ ExplicitScores(db, 1) = {5} /\ ExplicitScores(db, 2) = {}
    /\ BehaviorOf(db.userBehaviorTag, 2).implicitScore = Frac(32, 10)
    /\ BehaviorOf(db.userBehaviorTag, 2).divergenceDetected
    /\ BehaviorOf(db.userBehaviorTag, 2).lastExplicitScore = R(0)
    /\ BehaviorOf(db.userBehaviorTag, 1).implicitScore = Frac(288, 100)
    /\ ~BehaviorOf(db.userBehaviorTag, 1).divergenceDetected

----------------------------------------------------------------------------
\* The userTag rows of the other tags, in order.
OtherSkills(d, tagId) == SelectSeq(d.userTag, LAMBDA row : row.tagId # tagId)

\* How many userTag rows give the tag that score.
SkillRows(d, tagId, score) ==
    Cardinality({i \in 1..Len(d.userTag) :
                    d.userTag[i].tagId = tagId /\ d.userTag[i].score = score})

(* C17: respondToDivergence(tagId, action) sets divergenceDetected = false for
   that tag for every action in {add_skill, remove_skill, keep, dismiss};
   add_skill adds the tag to the user's explicit tag set with the given score
   (a score being given), remove_skill removes it, keep and dismiss leave the
   explicit tag set unchanged; no other tag's divergence flag changes. *)
C17_ResponseClearsOneFlag ==
    [][(out'.op = "respondToDivergence") =>
        LET tagId == out'.tagId
            action == out'.action
            newScore == out'.newScore
        IN  /\ Len(db'.userBehaviorTag) = Len(db.userBehaviorTag)
            /\ \A i \in 1..Len(db.userBehaviorTag) :
                IF db.userBehaviorTag[i].tagId = tagId
                THEN db'.userBehaviorTag[i] =
                        [db.userBehaviorTag[i] EXCEPT !.divergenceDetected = FALSE]
                ELSE db'.userBehaviorTag[i] = db.userBehaviorTag[i]
            /\ OtherSkills(db', tagId) = OtherSkills(db, tagId)
            /\ (action = "add_skill" /\ newScore # NULL) =>
                /\ ExplicitScores(db', tagId) = ExplicitScores(db, tagId) \cup {newScore[1]}
                /\ SkillRows(db', tagId, newScore[1]) = SkillRows(db, tagId, newScore[1]) + 1
                /\ Len(db'.userTag) = Len(db.userTag) + 1
            /\ action = "remove_skill" => ExplicitScores(db', tagId) = {}
            /\ action \in {"keep", "dismiss"} => db'.userTag = db.userTag]_vars

\* The user dropped skill 1 in answer to its prompt: tag 1 is no longer
\* flagged and no longer explicit, tag 2 is still flagged.
C17_Witness ==
    /\ out.op = "respondToDivergence"
    /\ out.tagId = 1 /\ out.action = "remove_skill"
    /\ ExplicitScores(db, 1) = {}
    /\ BehaviorOf(db.userBehaviorTag, 1) # <<>>
    /\ BehaviorOf(db.userBehaviorTag, 1).lastExplicitScore = R(5)
    /\ ~BehaviorOf(db.userBehaviorTag, 1).divergenceDetected
    /\ BehaviorOf(db.userBehaviorTag, 2) # <<>>
    /\ BehaviorOf(db.userBehaviorTag, 2).divergenceDetected

----------------------------------------------------------------------------
(* C16: divergence alerts are rate-limited to one batch per rolling 24-hour
   window: whatever getDivergenceAlerts, respondToDivergence and trackBehavior
   calls a run makes, any two getDivergenceAlerts calls that both returned a
   non-empty list are at least 24 hours apart. *)
C16_AlertBatchesAreADayApart ==
    \A i, j \in 1..Len(batches) :
        i < j => batches[j] - batches[i] >= PROMPT_INTERVAL_HOURS

----------------------------------------------------------------------------
(* C18: two behaviour events of the same type for the same user and bounty
   that run concurrently are both counted: once both calls have ended, every
   tag of the bounty has its counter 2 higher than before the calls, there is
   one behaviour row per tag, and totalInteractions of the blend config is 2
   higher. *)

\* Both concurrent calls found their bounty and have ended.
BothEnded ==
    /\ DOMAIN calls = Callers
    /\ \A c \in Callers : calls[c].pc \in {"done", "rejected"}
    /\ findBounty(allBounties, calls[1].bountyId) # <<>>

\* The counter of the calls' interaction type in the first row of the tag.
CountBefore(d, tagId, interactionType) ==
    IF findFirst(d.userBehaviorTag, tagId) = <<>> THEN 0
    ELSE findFirst(d.userBehaviorTag, tagId)[countField[interactionType]]

C18_ConcurrentEventsAreBothCounted ==
    BothEnded =>
        LET call == calls[1]
            bountyTags == tagsOf(bountyTagMap, call.bountyId)
        IN  /\ \A i \in 1..Len(bountyTags) :
                  LET tagId == bountyTags[i].tagId
                      rows == {j \in 1..Len(db.userBehaviorTag) :
                                  db.userBehaviorTag[j].tagId = tagId}
                  IN  /\ Cardinality(rows) = 1
                      /\ \A j \in rows :
                            db.userBehaviorTag[j][countField[call.interactionType]]
                              = CountBefore(call.before, tagId, call.interactionType) + 2
            /\ call.before.userBlendConfig # <<>> =>
                  db.userBlendConfig[1].totalInteractions
                    = call.before.userBlendConfig[1].totalInteractions + 2

----------------------------------------------------------------------------
\* min(10, 0.1 x view + 0.2 x like + 0.3 x submit + 0.4 x complete) over the
\* four per-type scores a row stores.
WeightedScore(row) ==
    RMin(R(10), RAdd(RAdd(RMul(Frac(1, 10), row.viewScore),
                          RMul(Frac(2, 10), row.likeScore)),
                     RAdd(RMul(Frac(3, 10), row.submitScore),
                          RMul(Frac(4, 10), row.completeScore))))

\* The tag ids of the bounty of the last trackBehavior call.
TrackedTagIds ==
    {tagsOf(bountyTagMap, out.bountyId)[i].tagId :
        i \in 1..Len(tagsOf(bountyTagMap, out.bountyId))}

(* C24: after every trackBehavior call, for each tag of the bounty (a tag that
   had no behaviour record before included) the stored implicitScore equals
   min(10, 0.1 x viewScore + 0.2 x likeScore + 0.3 x submitScore
   + 0.4 x completeScore) of the four stored per-type scores. *)
C24_ImplicitScoreIsWeightedSum ==
    TrackedBounty =>
        \A i \in 1..Len(db.userBehaviorTag) :
            db.userBehaviorTag[i].tagId \in TrackedTagIds =>
                db.userBehaviorTag[i].implicitScore = WeightedScore(db.userBehaviorTag[i])

----------------------------------------------------------------------------
BaseWeight == [view |-> Frac(1, 10), like |-> Frac(2, 10),
               submit |-> Frac(3, 10), complete |-> Frac(4, 10)]

\* The tag ids of the behaviour rows of a profile.
TagIdsOf(d) == {d.userBehaviorTag[i].tagId : i \in 1..Len(d.userBehaviorTag)}

\* The tag ids of a bounty.
TagIdsOfBounty(bountyId) ==
    {tagsOf(bountyTagMap, bountyId)[i].tagId : i \in 1..Len(tagsOf(bountyTagMap, bountyId))}

\* The four counters and the four scores of a tag; zeros when it has no row.
CountersOf(d, tagId) ==
    LET row == findFirst(d.userBehaviorTag, tagId)
    IN  [t \in InteractionTypes |->
            IF row = <<>> THEN <<0, R(0)>>
            ELSE <<row[countField[t]], row[scoreField[t]]>>]

\* What a trackBehavior step does to the tags of its bounty, and that it
\* leaves no trace when there is no such bounty.
TracksItsBounty(bountyId, interactionType) ==
    IF findBounty(allBounties, bountyId) = <<>> THEN db' = db
    ELSE /\ TagIdsOf(db') = TagIdsOf(db) \cup TagIdsOfBounty(bountyId)
         /\ Len(db'.userBehaviorTag) = Cardinality(TagIdsOf(db'))
         /\ \A tagId \in TagIdsOfBounty(bountyId) :
              LET before == CountersOf(db, tagId)
                  after == CountersOf(db', tagId)
                  count == before[interactionType][1] + 1
              IN  /\ after[interactionType] =
                        <<count, RMin(R(10), RMul(RMul(R(count), BaseWeight[interactionType]),
                                                  R(2)))>>
                  /\ \A t \in InteractionTypes \ {interactionType} : after[t] = before[t]

\* The original wording: the records of the other tags are unchanged.
OtherRecordsUnchanged(bountyId) ==
    \A tagId \in TagIdsOf(db) \ TagIdsOfBounty(bountyId) :
        findFirst(db'.userBehaviorTag, tagId) = findFirst(db.userBehaviorTag, tagId)

\* The counters, the scores and implicitScore of the other tags are unchanged.
OtherCountersUnchanged(bountyId) ==
    \A tagId \in TagIdsOf(db) \ TagIdsOfBounty(bountyId) :
        /\ CountersOf(db', tagId) = CountersOf(db, tagId)
        /\ findFirst(db'.userBehaviorTag, tagId).implicitScore
             = findFirst(db.userBehaviorTag, tagId).implicitScore

(* C25 as stated: trackBehavior on an existing bounty raises, for each tag of
   the bounty, the counter of the event type by exactly 1 (a new record starts
   at 1) and sets that type's score to min(10, count x baseWeight x 2); the
   other three counters and scores of those tags and all behaviour records of
   the tags not on the bounty are unchanged; on a bounty id that does not exist
   it changes nothing. *)
C25_TrackBehaviorCountsOneEvent ==
    [][(out'.op = "trackBehavior") =>
        /\ TracksItsBounty(out'.bountyId, out'.interactionType)
        /\ findBounty(allBounties, out'.bountyId) # <<>> =>
              OtherRecordsUnchanged(out'.bountyId)]_vars

(* C25 amended: as above, but of the records of the tags not on the bounty
   only the counters, the scores and implicitScore are unchanged: the
   divergence check of the call runs over every tag of the user and may flag
   such a record (divergenceDetected, lastExplicitScore). *)
C25_TrackBehaviorCountsOneEventOfItsTags ==
    [][(out'.op = "trackBehavior") =>
        /\ TracksItsBounty(out'.bountyId, out'.interactionType)
        /\ findBounty(allBounties, out'.bountyId) # <<>> =>
              OtherCountersUnchanged(out'.bountyId)]_vars

\* A completion of bounty 2 (tag 2) after the prompt for tag 1 was dismissed:
\* tag 2 is counted, tag 1 keeps its counters and is flagged again.
C25_Witness ==
    /\ TrackedBounty /\ out.bountyId = 2 /\ out.interactionType = "complete"
    /\ db.userBlendConfig[1].divergencePromptCount > 0
    /\ findFirst(db.userBehaviorTag, 1) # <<>>
    /\ findFirst(db.userBehaviorTag, 1).divergenceDetected
    /\ findFirst(db.userBehaviorTag, 1).completeCount = 0
    /\ findFirst(db.userBehaviorTag, 2).completeCount = 2
    /\ findFirst(db.userBehaviorTag, 2).completeScore = Frac(16, 10)

----------------------------------------------------------------------------
AverageFields == {"avgPriceViewed", "avgPriceLiked", "avgPriceSubmitted", "avgPriceCompleted"}

AverageOf == [view |-> "avgPriceViewed", like |-> "avgPriceLiked",
              submit |-> "avgPriceSubmitted", complete |-> "avgPriceCompleted"]

\* The averages of a profile; zeros when the user has no price row.
AveragesOf(d) ==
    [f \in AverageFields |->
        IF d.userBehaviorPrice = <<>> THEN R(0) ELSE d.userBehaviorPrice[1][f]]

\* The price row after an event of the type at price p follows the rolling
\* average and spans the averages that are > 0.
PriceFollows(interactionType, p) ==
    LET old == AveragesOf(db)
        new == AveragesOf(db')
        positive == {new[f] : f \in {g \in AverageFields : RLt(R(0), new[g])}}
    IN  /\ Len(db'.userBehaviorPrice) = 1
        /\ new[AverageOf[interactionType]] =
              IF old[AverageOf[interactionType]] = R(0) THEN p
              ELSE RAdd(RMul(Frac(9, 10), old[AverageOf[interactionType]]),
                        RMul(Frac(1, 10), p))
        /\ \A f \in AverageFields \ {AverageOf[interactionType]} : new[f] = old[f]
        /\ \E least \in positive, most \in positive :
              /\ \A v \in positive : RLe(least, v) /\ RLe(v, most)
              /\ db'.userBehaviorPrice[1].implicitPriceMin = RMul(Frac(1, 2), least)
              /\ db'.userBehaviorPrice[1].implicitPriceMax = RMul(Frac(3, 2), most)
              /\ RLe(RMul(Frac(1, 2), least), RMul(Frac(3, 2), most))

(* C26: after every trackBehavior call on a bounty with price p > 0 (the first
   event of a user who has no price row yet included), the rolling average of
   the event type is p if it was 0 before and 0.9 x old + 0.1 x p otherwise,
   the other three averages are unchanged, and the implicit price range is
   [0.5 x min, 1.5 x max] over the averages that are > 0, so that
   implicitPriceMin <= implicitPriceMax. *)
C26_PriceAverageAndRange ==
    [][(/\ out'.op = "trackBehavior"
        /\ findBounty(allBounties, out'.bountyId) # <<>>
        /\ findBounty(allBounties, out'.bountyId).price > 0)
       => PriceFollows(out'.interactionType,
                       R(findBounty(allBounties, out'.bountyId).price))]_vars

----------------------------------------------------------------------------
\* What the behaviour tracker keeps of a user.
TrackerOf(d) ==
    [userBehaviorTag |-> d.userBehaviorTag, userBehaviorPrice |-> d.userBehaviorPrice,
     userBlendConfig |-> d.userBlendConfig]

\* The total of the blend config; 0 for a user who has none.
TotalOf(d) ==
    IF d.userBlendConfig = <<>> THEN 0 ELSE d.userBlendConfig[1].totalInteractions

(* C23: a recordInteraction of type claim feeds nothing into the behaviour
   tracker: it leaves every UserBehaviorTag row, the UserBehaviorPrice row and
   the UserBlendConfig row unchanged; view, like, submit and complete each
   invoke trackBehavior exactly once (the tracker is left as one trackBehavior
   call leaves it, the total of the blend config one higher). *)
C23_ClaimIsNotTracked ==
    [][(out'.op = "recordInteraction"
        /\ findBounty(allBounties, out'.bountyId) # <<>>) =>
        IF out'.type = "claim"
        THEN /\ TrackerOf(db') = TrackerOf(db)
             /\ Len(db'.bountyInteraction) = Len(db.bountyInteraction) + 1
        ELSE /\ TrackerOf(db') =
                  TrackerOf(trackBehavior(db, allBounties, bountyTagMap,
                                          out'.bountyId, out'.type))
             /\ db.userBlendConfig # <<>> => TotalOf(db') = TotalOf(db) + 1
             /\ \A tagId \in TagIdsOfBounty(out'.bountyId) :
                   CountersOf(db', tagId)[out'.type][1]
                     = CountersOf(db, tagId)[out'.type][1] + 1]_vars

\* A claim after two tracked events: three interactions recorded, two tracked.
C23_Witness ==
    /\ out.op = "recordInteraction" /\ out.type = "claim" /\ out.bountyId = 1
    /\ Len(db.bountyInteraction) = 3
    /\ db.userProfile[1].engagementScore = 6
    /\ TotalOf(db) = 2
    /\ CountersOf(db, 1)["view"][1] + CountersOf(db, 1)["like"][1]
         + CountersOf(db, 1)["submit"][1] + CountersOf(db, 1)["complete"][1] = 2

----------------------------------------------------------------------------
\* The userTag rows of a tag.
SkillRowsOf(d, tagId) == {i \in 1..Len(d.userTag) : d.userTag[i].tagId = tagId}

(* C21: after any sequence of saveSkills, updateUserTags and
   respondToDivergence operations a user has at most one explicit UserTagScore
   per tag, and saveSkills and updateUserTags leave the user's explicit tags
   equal to exactly the submitted list. *)
C21_OneExplicitScorePerTag ==
    /\ \A i \in 1..Len(db.userTag) :
          Cardinality(SkillRowsOf(db, db.userTag[i].tagId)) = 1
    /\ out.op \in {"saveSkills", "updateUserTags"} => db.userTag = out.submitted

----------------------------------------------------------------------------
(* C29: every alert returned by getDivergenceAlerts agrees with the user's
   explicit tags at the time of the call: a new_interest alert is returned
   only for a tag absent from the explicit tags, an unused_skill alert only
   for a tag whose explicit score is >= 4, after any sequence of
   trackBehavior, updateUserTags/saveSkills and respondToDivergence. *)
C29_AlertsAgreeWithExplicitTags ==
    out.op = "getDivergenceAlerts" =>
        \A i \in 1..Len(out.result) :
            /\ out.result[i].type = "new_interest" =>
                  ExplicitScores(db, out.result[i].tagId) = {}
            /\ out.result[i].type = "unused_skill" =>
                  \E score \in ExplicitScores(db, out.result[i].tagId) : score >= 4

----------------------------------------------------------------------------
\* The tags the user has an explicit score or a behaviour row for.
BlendedTagIds(d) ==
    {d.userTag[i].tagId : i \in 1..Len(d.userTag)} \cup TagIdsOf(d)

\* The weights of the user: those of the blend config, or 0.8 and 0.2.
WeightsOf(d) ==
    IF d.userBlendConfig = <<>> THEN <<Frac(8, 10), Frac(2, 10)>>
    ELSE <<d.userBlendConfig[1].explicitWeight, d.userBlendConfig[1].implicitWeight>>

\* The name of a tag, or the placeholder for a tag without a name.
LabelOf(d, tagId) ==
    IF \E i \in 1..Len(d.tag) : d.tag[i].id = tagId
    THEN (CHOOSE row \in {d.tag[i] : i \in 1..Len(d.tag)} : row.id = tagId).name
    ELSE "Tag " \o ToString(tagId)

(* C22: getBlendedTagScores returns exactly one entry for each tag in the
   union of the user's explicit tags and behaviour tags, with blendedScore =
   explicitScore x explicitWeight + implicitScore x implicitWeight (a missing
   side counted as 0, the weights 0.8/0.2 when there is no blend config),
   ordered by blendedScore non-increasing; a tag id with no tag name gets the
   label "Tag <id>". *)
C22_BlendedScoresCoverTheUnion ==
    out.op = "getBlendedTagScores" =>
        /\ {out.result[i].tagId : i \in 1..Len(out.result)} = BlendedTagIds(db)
        /\ Len(out.result) = Cardinality(BlendedTagIds(db))
        /\ \A i \in 1..Len(out.result) :
              LET entry == out.result[i]
                  row == findFirst(db.userBehaviorTag, entry.tagId)
              IN  /\ IF ExplicitScores(db, entry.tagId) = {} THEN entry.explicitScore = R(0)
                     ELSE \E score \in ExplicitScores(db, entry.tagId) :
                              entry.explicitScore = R(score)
                  /\ entry.implicitScore = IF row = <<>> THEN R(0) ELSE row.implicitScore
                  /\ entry.blendedScore =
                        RAdd(RMul(entry.explicitScore, WeightsOf(db)[1]),
                             RMul(entry.implicitScore, WeightsOf(db)[2]))
                  /\ entry.tagName = LabelOf(db, entry.tagId)
        /\ \A i, j \in 1..Len(out.result) :
              i < j => RLe(out.result[j].blendedScore, out.result[i].blendedScore)

\* Tag 1 was deleted after 9 completions: its behaviour row is left without a
\* name and is listed, behind the explicit skill 2, under the placeholder.
C22_Witness ==
    /\ out.op = "getBlendedTagScores"
    /\ Len(out.result) = 2
    /\ out.result[1].tagId = 2 /\ out.result[1].tagName = "backend"
    /\ out.result[1].explicitScore = R(4)
    /\ out.result[2].tagId = 1 /\ out.result[2].tagName = "Tag 1"
    /\ out.result[2].explicitScore = R(0)
    /\ out.result[2].implicitScore = Frac(288, 100)
    /\ RLt(out.result[2].blendedScore, out.result[1].blendedScore)

----------------------------------------------------------------------------
\* The edges of the table that are discovered from the requesting user, by
\* their place in the table: layer1 holds the stored edges of the user,
\* layer2 the edges from a layer-1 id to somebody who is neither the user nor
\* a layer-1 id, layer3 the edges from a layer-2 id to somebody who is
\* neither the user, nor a layer-1 id, nor a layer-2 id.
Discovery ==
    LET table == db.mutual
        edges == 1..Len(table)
        e1 == {i \in edges : table[i].userId = Me}
        ids1 == {table[i].mutualId : i \in e1}
        e2 == {i \in edges : /\ table[i].userId \in ids1
                              /\ table[i].mutualId \notin ids1 \cup {Me}}
        ids2 == {table[i].mutualId : i \in e2}
        e3 == {i \in edges : /\ table[i].userId \in ids2
                              /\ table[i].mutualId \notin ids1 \cup ids2 \cup {Me}}
    IN  [layer1 |-> e1, layer2 |-> e2, layer3 |-> e3, all |-> e1 \cup e2 \cup e3]

\* The layer an edge is discovered at.
DiscoveryLayer(found, i) ==
    CASE i \in found.layer1 -> 1
      [] i \in found.layer2 -> 2
      [] i \in found.layer3 -> 3

\* The entry the claim expects for a discovered edge.
EntryOf(found, i) ==
    [mutualId |-> db.mutual[i].mutualId,
     layer |-> DiscoveryLayer(found, i),
     strength |-> RMul(db.mutual[i].strength,
                       LayerMultiplier(DiscoveryLayer(found, i)))]

Expanded == out.op = "getMutualsThreeLayers"

(* C27: getMutualsThreeLayers returns one entry for every stored edge of the
   user (layer 1, the stored strength), for every edge from a layer-1 id to
   somebody who is neither the user nor a layer-1 id (layer 2, the strength
   times 0.5) and for every edge from a layer-2 id to somebody who is neither
   the user, a layer-1 id nor a layer-2 id (layer 3, the strength times
   0.25), and nothing else; the layer of an entry is its discovery layer
   whatever layer is stored with the edge, and its strength never exceeds
   the strength of the edge. *)
C27_ThreeLayersOfMutuals ==
    Expanded =>
        LET found == Discovery
            expected == {<<i, EntryOf(found, i)>> : i \in found.all}
        IN  /\ Len(out.result) = Cardinality(found.all)
            /\ \A x \in expected :
                  /\ Cardinality({k \in 1..Len(out.result) : out.result[k] = x[2]})
                        = Cardinality({y \in expected : y[2] = x[2]})
                  /\ RLe(x[2].strength, db.mutual[x[1]].strength)
            /\ \A k \in 1..Len(out.result) :
                  \E x \in expected : out.result[k] = x[2]

\* A result with all three layers, one entry of which was discovered at a
\* layer that is not the layer stored with its edge.
C27_Witness ==
    /\ Expanded
    /\ Discovery.layer3 # {}
    /\ \E i \in Discovery.layer2 : db.mutual[i].layer # 2
    /\ \E k \in 1..Len(out.result) : out.result[k].layer = 3

----------------------------------------------------------------------------
NoSelfEdge == \A i \in 1..Len(db.mutual) : db.mutual[i].userId # db.mutual[i].mutualId

NoRepeatedPair ==
    \A i, j \in 1..Len(db.mutual) :
        (/\ db.mutual[i].userId = db.mutual[j].userId
         /\ db.mutual[i].mutualId = db.mutual[j].mutualId) => i = j

(* C28: given stored edges with no self-edge and no repeated (source, target)
   pair, the result of getMutualsThreeLayers does not contain the requesting
   user and does not contain the same mutualId in more than one entry. *)
C28_ExpandedListIsDeduplicated ==
    (Expanded /\ NoSelfEdge /\ NoRepeatedPair) =>
        /\ \A k \in 1..Len(out.result) : out.result[k].mutualId # Me
        /\ \A k, l \in 1..Len(out.result) :
              out.result[k].mutualId = out.result[l].mutualId => k = l

----------------------------------------------------------------------------
\* What the edges of the table add to the boost of bounty 1 in the feed, the
\* edges up to the n-th taken together.
RECURSIVE ContributionOf(_, _)
ContributionOf(found, n) ==
    IF n = 0 THEN R(0)
    ELSE RAdd(IF n \in found.all /\ Interacted(db.mutual[n])
              THEN RMul(RMul(db.mutual[n].strength,
                             LayerMultiplier(DiscoveryLayer(found, n))),
                        LayerMultiplier(DiscoveryLayer(found, n)))
              ELSE R(0),
              ContributionOf(found, n - 1))

FeedBoosted == out.op = "socialBoostOfFeed"

(* C30: in the feed, where getMutualsThreeLayers feeds computeSocialBoost, an
   interacting connection discovered at layer k through an edge of stored
   strength s adds s x 0.5^(k-1) x 0.5^(k-1) to the boost: s at layer 1,
   s/4 at layer 2, s/16 at layer 3; the boost is the sum of these, capped at
   2. *)
C30_DecayIsAppliedTwice ==
    FeedBoosted =>
        out.result = RMin(ContributionOf(Discovery, Len(db.mutual)), R(2))

\* A feed with an interacting connection at layer 2 and one at layer 3,
\* below the cap.
C30_Witness ==
    /\ FeedBoosted
    /\ \E i \in Discovery.layer2 : Interacted(db.mutual[i])
    /\ \E i \in Discovery.layer3 : Interacted(db.mutual[i])
    /\ RLt(out.result, R(2))

====
